---------------------------- MODULE Spec2Model ----------------------------
(***************************************************************************)
(* State-machine model of the IR report bot (Rlskai/ir-generator):         *)
(* RegistrationService (profile store, validators, state and scratch       *)
(* management), the command, message and callback handlers, and the        *)
(* report renderer's inputs.                                               *)
(*                                                                         *)
(* Text is modelled as a sequence of one-character strings, so that the    *)
(* validators and the normalisations (strip, upper, re.sub, split) are     *)
(* computed character by character as the Python code computes them.       *)
(***************************************************************************)
EXTENDS Integers, Sequences, FiniteSets, TLC

(***************************************************************************)
(* Text primitives: Python's str.strip, str.upper, str.split, re.sub and   *)
(* the character classes of the regular expressions.                       *)
(***************************************************************************)

\* The whitespace characters of the modelled alphabet (str.strip, \s).
Whitespace == {" ", "\t", "\n"}

DigitSeq == <<"0", "1", "2", "3", "4", "5", "6", "7", "8", "9">>

LowerSeq == <<"a", "b", "c", "d", "e", "f", "g", "h", "i", "j", "k", "l", "m",
              "n", "o", "p", "q", "r", "s", "t", "u", "v", "w", "x", "y", "z">>

UpperSeq == <<"A", "B", "C", "D", "E", "F", "G", "H", "I", "J", "K", "L", "M",
              "N", "O", "P", "Q", "R", "S", "T", "U", "V", "W", "X", "Y", "Z">>

Range(s) == {s[i] : i \in 1..Len(s)}

Digits == Range(DigitSeq)

Letters == Range(LowerSeq) \cup Range(UpperSeq)

MinOf(S) == CHOOSE m \in S : \A n \in S : m <= n

MaxOf(S) == CHOOSE m \in S : \A n \in S : n <= m

\* str.upper() on one character.
UpperChar(c) ==
    IF c \in Range(LowerSeq)
    THEN UpperSeq[CHOOSE i \in 1..Len(LowerSeq) : LowerSeq[i] = c]
    ELSE c

\* str.upper()
Upper(s) == [i \in 1..Len(s) |-> UpperChar(s[i])]

\* str.strip()
Strip(s) ==
    LET keep == {i \in 1..Len(s) : s[i] \notin Whitespace}
    IN  IF keep = {} THEN <<>> ELSE SubSeq(s, MinOf(keep), MaxOf(keep))

\* re.sub(r'[...]', '', s): s without the characters of the class.
RemoveChars(s, class) == SelectSeq(s, LAMBDA c : c \notin class)

\* re.match(r'^[class]+$', s) on a stripped s.
AllIn(s, class) == Len(s) >= 1 /\ \A i \in 1..Len(s) : s[i] \in class

\* str.startswith
StartsWith(s, p) == Len(s) >= Len(p) /\ SubSeq(s, 1, Len(p)) = p

\* str.split(): the maximal runs of non-whitespace characters.
RECURSIVE SplitWhitespace(_)
SplitWhitespace(s) ==
    IF s = <<>> THEN <<>>
    ELSE IF Head(s) \in Whitespace THEN SplitWhitespace(Tail(s))
    ELSE LET ws == {i \in 1..Len(s) : s[i] \in Whitespace}
             n  == IF ws = {} THEN Len(s) ELSE MinOf(ws) - 1
         IN  <<SubSeq(s, 1, n)>> \o SplitWhitespace(SubSeq(s, n + 1, Len(s)))

\* str.split(sep): the pieces between separators, empty pieces kept.
RECURSIVE SplitOn(_, _)
SplitOn(s, sep) ==
    LET at == {i \in 1..Len(s) : s[i] = sep}
    IN  IF at = {} THEN <<s>>
        ELSE <<SubSeq(s, 1, MinOf(at) - 1)>>
             \o SplitOn(SubSeq(s, MinOf(at) + 1, Len(s)), sep)

DigitVal(c) == (CHOOSE i \in 1..Len(DigitSeq) : DigitSeq[i] = c) - 1

\* int() of a two-digit text.
TwoDigits(s) == 10 * DigitVal(s[1]) + DigitVal(s[2])

\* str.lower()
LowerChar(c) ==
    IF c \in Range(UpperSeq)
    THEN LowerSeq[CHOOSE i \in 1..Len(UpperSeq) : UpperSeq[i] = c]
    ELSE c

Lower(s) == [i \in 1..Len(s) |-> LowerChar(s[i])]

\* str.replace(old, new): every occurrence, left to right (old is not empty).
RECURSIVE Replace(_, _, _)
Replace(s, old, new) ==
    IF Len(s) < Len(old) THEN s
    ELSE IF SubSeq(s, 1, Len(old)) = old
         THEN new \o Replace(SubSeq(s, Len(old) + 1, Len(s)), old, new)
         ELSE <<Head(s)>> \o Replace(Tail(s), old, new)

\* "x" in s for a substring x.
Contains(s, x) ==
    \E i \in 1..(Len(s) - Len(x) + 1) : SubSeq(s, i, i + Len(x) - 1) = x

(***************************************************************************)
(* config.py                                                               *)
(***************************************************************************)

VALID_RANKS == {
    <<"R", "E", "C">>, <<"P", "T", "E">>, <<"L", "C", "P">>, <<"C", "P", "L">>,
    <<"C", "F", "C">>, <<"3", "S", "G">>, <<"2", "S", "G">>, <<"1", "S", "G">>,
    <<"S", "S", "G">>, <<"M", "S", "G">>, <<"3", "W", "O">>, <<"2", "W", "O">>,
    <<"1", "W", "O">>, <<"S", "W", "O">>, <<"C", "W", "O">>, <<"O", "C", "T">>,
    <<"2", "L", "T">>, <<"L", "T", "A">>, <<"C", "P", "T">>, <<"M", "A", "J">>,
    <<"L", "T", "C">>, <<"S", "L", "T", "C">>, <<"C", "O", "L">>, <<"B", "G">>,
    <<"M", "G">>, <<"L", "G">> }

IDLE == "idle"
AWAITING_RANK == "awaiting_rank"
AWAITING_NAME == "awaiting_name"
AWAITING_COMPANY == "awaiting_company"
AWAITING_UNIT == "awaiting_unit"
AWAITING_CONTACT == "awaiting_contact"
AWAITING_IR_TYPE == "awaiting_ir_type"
AWAITING_NATURE_TYPE == "awaiting_nature_type"
AWAITING_DATE_TIME == "awaiting_date_time"
AWAITING_SERVICEMAN == "awaiting_serviceman"
AWAITING_LOCATION == "awaiting_location"
AWAITING_INJURY == "awaiting_injury"
AWAITING_DESCRIPTION == "awaiting_description"
AWAITING_FOLLOWUP == "awaiting_followup"
EDITING_RANK == "editing_rank"
EDITING_NAME == "editing_name"
EDITING_COMPANY == "editing_company"
EDITING_UNIT == "editing_unit"
EDITING_CONTACT == "editing_contact"

MAX_IR_CONTENT_LENGTH == 4000

\* Python's None: a value no text (a sequence of single characters) equals.
None == <<"None">>

(***************************************************************************)
(* RegistrationService: the validators.  Each returns is_valid (the error  *)
(* text is not modelled); validate_date_time and                           *)
(* validate_serviceman_details also return their normalised parts.         *)
(***************************************************************************)

validate_rank(rank) ==
    LET r == Upper(Strip(rank))
    IN  r # <<>> /\ r \in VALID_RANKS

validate_name(name) ==
    LET n == Strip(name)
    IN  /\ n # <<>>
        /\ AllIn(n, Letters \cup Whitespace \cup {"-", "'", "."})
        /\ Len(n) >= 2

validate_company(company) ==
    LET c == Strip(company)
    IN  /\ c # <<>>
        /\ AllIn(c, Letters \cup Digits \cup Whitespace
                    \cup {"-", "'", ".", "&", "(", ")"})
        /\ Len(c) >= 1

validate_unit(unit) ==
    LET c == Strip(unit)
    IN  /\ c # <<>>
        /\ AllIn(c, Letters \cup Digits \cup Whitespace
                    \cup {"-", "'", ".", "&", "(", ")", "/"})
        /\ Len(c) >= 1

\* re.sub(r'[\s\-\+\(\)]', '', contact), then the "65" prefix of a
\* 10-character result dropped.
\* A normalisation that removes the separators but keeps a country prefix.
clean_contact_keeping_prefix(contact) ==
    RemoveChars(contact, Whitespace \cup {"-", "+", "(", ")"})

clean_contact(contact) ==
    LET c == RemoveChars(contact, Whitespace \cup {"-", "+", "(", ")"})
    IN  IF StartsWith(c, <<"6", "5">>) /\ Len(c) = 10
        THEN SubSeq(c, 3, Len(c))
        ELSE c

validate_contact_number(contact) ==
    LET c == Strip(contact)
        k == clean_contact(c)
    IN  /\ c # <<>>
        /\ Len(k) = 8
        /\ k[1] \in {"8", "9"}
        /\ \A i \in 2..8 : k[i] \in Digits

validate_ir_content(content) ==
    LET c == Strip(content)
    IN  c # <<>> /\ Len(c) <= MAX_IR_CONTENT_LENGTH

\* re.match(DATE_PATTERN, s): six digits.
MatchesDate(s) == Len(s) = 6 /\ \A i \in 1..6 : s[i] \in Digits

\* re.match(TIME_PATTERN, s) with TIME_PATTERN = ^\d{4}HRS?$ : four digits,
\* "H", "R" and an optional "S".
MatchesTime(s) ==
    /\ Len(s) \in {6, 7}
    /\ \A i \in 1..4 : s[i] \in Digits
    /\ s[5] = "H"
    /\ s[6] = "R"
    /\ Len(s) = 7 => s[7] = "S"

\* A validator that checks the shape of the date but not its day and month.
validate_date_time_any_day(date_time_input) ==
    LET parts == SplitWhitespace(Strip(date_time_input))
    IN  IF /\ Len(parts) = 2
           /\ MatchesDate(parts[1])
           /\ MatchesTime(Upper(parts[2]))
           /\ TwoDigits(SubSeq(parts[2], 1, 2)) <= 23
           /\ TwoDigits(SubSeq(parts[2], 3, 4)) <= 59
        THEN [valid |-> TRUE, date_part |-> parts[1],
              time_part |-> SubSeq(Upper(parts[2]), 1, 4)]
        ELSE [valid |-> FALSE, date_part |-> <<>>, time_part |-> <<>>]

validate_date_time(date_time_input) ==
    LET inp   == Strip(date_time_input)
        parts == SplitWhitespace(inp)
        bad   == [valid |-> FALSE, date_part |-> <<>>, time_part |-> <<>>]
    IN  IF inp = <<>> THEN bad
        ELSE IF Len(parts) # 2 THEN bad
        ELSE LET date_part == parts[1]
                 time_part == Upper(parts[2])
             IN  IF ~MatchesDate(date_part) THEN bad
                 ELSE IF ~MatchesTime(time_part) THEN bad
                 ELSE LET time_nums == SubSeq(time_part, 1, 4)
                          hours     == TwoDigits(SubSeq(time_nums, 1, 2))
                          minutes   == TwoDigits(SubSeq(time_nums, 3, 4))
                          day       == TwoDigits(SubSeq(date_part, 1, 2))
                          month     == TwoDigits(SubSeq(date_part, 3, 4))
                      IN  IF hours > 23 \/ minutes > 59 THEN bad
                          ELSE IF day < 1 \/ day > 31 \/ month < 1 \/ month > 12
                               THEN bad
                          ELSE [valid |-> TRUE, date_part |-> date_part,
                                time_part |-> time_nums]

\* re.match(NRIC_PATTERN, s): a capital letter, seven digits, a capital letter.
MatchesNric(s) ==
    /\ Len(s) = 9
    /\ s[1] \in Range(UpperSeq)
    /\ \A i \in 2..8 : s[i] \in Digits
    /\ s[9] \in Range(UpperSeq)

\* re.match(PES_PATTERN, s): "PES ", a letter A-F, a digit 1-9.
MatchesPes(s) ==
    /\ Len(s) = 6
    /\ SubSeq(s, 1, 4) = <<"P", "E", "S", " ">>
    /\ s[5] \in {"A", "B", "C", "D", "E", "F"}
    /\ s[6] \in Digits \ {"0"}

\* A validator that does not check the PES component.
validate_serviceman_details_any_pes(details) ==
    LET parts == SplitOn(Strip(details), "/")
    IN  IF /\ Len(parts) = 5
           /\ MatchesNric(Upper(Strip(parts[1])))
           /\ Strip(parts[2]) # <<>>
           /\ Strip(parts[3]) # <<>>
           /\ Upper(Strip(parts[4])) = <<"N", "S", "F">>
        THEN [valid |-> TRUE,
              formatted |->
                  <<UpperChar(Strip(parts[1])[1]), "/">>
                  \o Upper(Tail(Strip(parts[1]))) \o <<"/">>
                  \o Upper(Strip(parts[2])) \o <<"/">>
                  \o Upper(Strip(parts[3])) \o <<"/">>
                  \o Upper(Strip(parts[4])) \o <<"/">>
                  \o Upper(Strip(parts[5]))]
        ELSE [valid |-> FALSE, formatted |-> <<>>]

validate_serviceman_details(details) ==
    LET d     == Strip(details)
        parts == SplitOn(d, "/")
        bad   == [valid |-> FALSE, formatted |-> <<>>]
    IN  IF d = <<>> THEN bad
        ELSE IF Len(parts) # 5 THEN bad
        ELSE LET nric      == Strip(parts[1])
                 rank_name == Strip(parts[2])
                 four_d    == Strip(parts[3])
                 nsf       == Strip(parts[4])
                 pes       == Strip(parts[5])
             IN  IF ~MatchesNric(Upper(nric)) THEN bad
                 ELSE IF ~MatchesPes(Upper(pes)) THEN bad
                 ELSE IF rank_name = <<>> THEN bad
                 ELSE IF four_d = <<>> THEN bad
                 ELSE IF Upper(nsf) # <<"N", "S", "F">> THEN bad
                 ELSE [valid |-> TRUE,
                       formatted |->
                           <<UpperChar(nric[1]), "/">>
                           \o Upper(SubSeq(nric, 2, Len(nric)))
                           \o <<"/">> \o Upper(rank_name)
                           \o <<"/">> \o Upper(four_d)
                           \o <<"/">> \o Upper(nsf)
                           \o <<"/">> \o Upper(pes)]

IR_TYPES == <<
    <<"I","N","I","T","I","A","L">>,
    <<"I","N","I","T","I","A","L"," ","&"," ","F","I","N","A","L">>,
    <<"U","P","D","A","T","E">>,
    <<"U","P","D","A","T","E"," ","&"," ","F","I","N","A","L">> >>

NATURE_TYPES == <<
    <<"N","O","N","-","T","R","A","I","N","I","N","G"," ","R","E","L","A","T","E","D">>,
    <<"T","R","A","I","N","I","N","G"," ","R","E","L","A","T","E","D">> >>

DEFAULT_USER_PROFILE ==
    [rank |-> None, full_name |-> None, company |-> None, unit |-> None,
     contact_number |-> None, registered |-> FALSE, state |-> IDLE,
     temp_data |-> [k \in {} |-> None]]

(***************************************************************************)
(* Python dicts are functions whose domain is the set of keys present.     *)
(***************************************************************************)

\* {}
EmptyDict == [k \in {} |-> None]

\* d[k] = v
DictSet(d, k, v) == [x \in DOMAIN d \cup {k} |-> IF x = k THEN v ELSE d[x]]

\* d.get(k, default)
DictGet(d, k, default) == IF k \in DOMAIN d THEN d[k] ELSE default

\* d.pop(k, None) for every k of keys
DictPopAll(d, keys) == [x \in DOMAIN d \ keys |-> d[x]]

\* d.update(updates)
DictUpdate(d, updates) ==
    [x \in DOMAIN d \cup DOMAIN updates |->
        IF x \in DOMAIN updates THEN updates[x] ELSE d[x]]

\* Python truthiness of an optional text: neither None nor "".
Truthy(v) == v # None /\ v # <<>>

(***************************************************************************)
(* State.                                                                  *)
(*   users_data     RegistrationService.users_data: user key -> profile    *)
(*   saved_users    the content of data/users.json (the last dump that     *)
(*                  succeeded)                                             *)
(*   faults         how many dumps and sends have failed so far (bounded)  *)
(*   edits          how many valid edit inputs have been sent (bounded)    *)
(*   last           the last inbound event: who sent it, its kind and data *)
(*                  (the text of a message, the identifier of a button),    *)
(*                  the state it arrived in (from), the messages delivered  *)
(*                  (out), the report rendered, whether a dump failed       *)
(*   call           a pure function applied on its own: the function, its   *)
(*                  argument and the results so far (unused by the bot)     *)
(***************************************************************************)
VARIABLES users_data, saved_users, faults, edits, last, call

vars == <<users_data, saved_users, faults, edits, last, call>>

(***************************************************************************)
(* Bounds of the model.                                                    *)
(***************************************************************************)

\* At most this many failures in one behaviour (a json dump that fails, a
\* send that raises).
MaxFaults == 1

\* At most this many valid inputs to an EDITING state in one behaviour.
MaxEdits == 1

(***************************************************************************)
(* A handler runs on a world w: the in-memory profiles, the file, the      *)
(* messages delivered so far, and the environment's choices for this event *)
(* (which dump fails, which send raises).  Every service method is an      *)
(* operator from worlds to worlds; w.ok is the value the last _save_users  *)
(* returned and w.exc says that a send has raised and the handler's        *)
(* remaining statements are skipped.                                       *)
(***************************************************************************)

\* The environment's choices for one event: badSave = k makes the k-th
\* _save_users of the event return False (0: none), badSend = k makes the
\* k-th await of the handler raise (0: none).  The reply of the except
\* block is taken to be delivered.
Faults(o) == (IF o.badSave = 0 THEN 0 ELSE 1) + (IF o.badSend = 0 THEN 0 ELSE 1)

Oracles ==
    {o \in [badSave : 0..3, badSend : 0..2] : faults + Faults(o) <= MaxFaults}

Begin(o) ==
    [data |-> users_data, file |-> saved_users,
     nsave |-> 0, badSave |-> o.badSave, failed |-> FALSE, ok |-> TRUE,
     nsend |-> 0, badSend |-> o.badSend, exc |-> FALSE,
     out |-> <<>>, report |-> <<>>]

\* The value of a singleton set: The({e(x) : x \in {v}}) is e with x bound
\* to the value of v (a local variable assigned once and read many times).
The(S) == CHOOSE x \in S : TRUE

\* RegistrationService._save_users: json.dump of the whole of users_data.
_save_users(w) ==
    IF w.nsave + 1 = w.badSave
    THEN [w EXCEPT !.nsave = @ + 1, !.ok = FALSE, !.failed = TRUE]
    ELSE [w EXCEPT !.nsave = @ + 1, !.ok = TRUE, !.file = w.data]

\* An outbound message: its text (by kind) and its inline keyboard.
Message(text, keyboard) == [text |-> text, keyboard |-> keyboard]

\* await update.message.reply_text(...) / query.edit_message_text(...) /
\* query.answer(): delivered, or raises.  A delivered message is recorded
\* with the state each user has in the file at the moment it is sent.  After a raise the statements that
\* follow in the try block are skipped: every operator that changes the
\* world leaves a world with exc set as it is.
Send(w, msgs) ==
    IF w.exc THEN w
    ELSE IF w.nsend + 1 = w.badSend
    THEN [w EXCEPT !.nsend = @ + 1, !.exc = TRUE]
    ELSE [w EXCEPT !.nsend = @ + 1,
                   !.out = @ \o [i \in 1..Len(msgs) |->
                                    [text |-> msgs[i].text,
                                     keyboard |-> msgs[i].keyboard,
                                     saved |-> [x \in DOMAIN w.file |->
                                                   w.file[x].state]]]]

\* An exception raised by the handler's own code.
Raise(w) == [w EXCEPT !.exc = TRUE]

\* except Exception: reply with format_system_error().
Catch(w, u) ==
    IF w.exc
    THEN [w EXCEPT !.exc = FALSE,
                   !.out = Append(@, [text |-> "system_error",
                                      keyboard |-> "none",
                                      saved |-> [x \in DOMAIN w.file |->
                                                    w.file[x].state]])]
    ELSE w

(***************************************************************************)
(* RegistrationService: profile store.                                     *)
(***************************************************************************)

_get_user_profile(w, u) ==
    IF w.exc \/ u \in DOMAIN w.data
    THEN w
    ELSE _save_users([w EXCEPT !.data = DictSet(@, u, DEFAULT_USER_PROFILE)])

_update_user_profile(w, u, updates) ==
    IF w.exc THEN w
    ELSE _save_users([_get_user_profile(w, u) EXCEPT
                          !.data[u] = DictUpdate(@, updates)])

\* The getters below read a profile that exists: every handler's first
\* service call goes through _get_user_profile, which creates it.
is_user_registered(w, u) == w.data[u].registered

get_user_state(w, u) == w.data[u].state

get_user_temp_data(w, u, key) == DictGet(w.data[u].temp_data, key, None)

\* get_user_particulars that returns the five fields of every record,
\* registered or not.
get_user_particulars_unchecked(w, u) ==
    <<[f \in {"rank", "full_name", "company", "unit", "contact_number"} |->
         w.data[u][f]]>>

\* Returns <<>> for None and <<particulars>> for a dict.
get_user_particulars(w, u) ==
    IF w.data[u].registered
    THEN <<[f \in {"rank", "full_name", "company", "unit", "contact_number"} |->
              w.data[u][f]]>>
    ELSE <<>>

\* set_user_state without the clearing of temp_data on IDLE.
set_user_state_keeping_temp_data(w, u, state) ==
    _update_user_profile(w, u, [state |-> state])

\* set_user_state that empties temp_data on every change of state.
set_user_state_clearing_always(w, u, state) ==
    _update_user_profile(w, u, [state |-> state, temp_data |-> EmptyDict])

set_user_state(w, u, state) ==
    _update_user_profile(w, u,
        IF state = IDLE
        THEN [state |-> state, temp_data |-> EmptyDict]
        ELSE [state |-> state])

\* store_user_temp_data when every record's temp_data is one shared dict:
\* the key appears in the temp_data of every record.
store_user_temp_data_in_shared_dict(w, u, key, value) ==
    The({IF w1.exc THEN w1
         ELSE _save_users(
                  [w1 EXCEPT !.data =
                       [x \in DOMAIN w1.data |->
                           [w1.data[x] EXCEPT
                                !.temp_data = DictSet(w1.data[x].temp_data,
                                                      key, value)]]]) :
         w1 \in {_get_user_profile(w, u)}})

store_user_temp_data(w, u, key, value) ==
    The({_update_user_profile(w1, u,
             [temp_data |-> DictSet(w1.data[u].temp_data, key, value)]) :
         w1 \in {_get_user_profile(w, u)}})

store_ir_data(w, u, key, value) == store_user_temp_data(w, u, key, value)

\* register_user that leaves contact_number as it was.
register_user_without_contact(w, u, rank, full_name, company, unit, contact_number) ==
    _update_user_profile(w, u,
        [rank |-> Strip(Upper(rank)),
         full_name |-> Strip(Upper(full_name)),
         company |-> Strip(Upper(company)),
         unit |-> Strip(Upper(unit)),
         registered |-> TRUE,
         state |-> IDLE,
         temp_data |-> EmptyDict])

\* register_user that stores the contact number as it was typed.
register_user_contact_as_typed(w, u, rank, full_name, company, unit, contact_number) ==
    _update_user_profile(w, u,
        [rank |-> Strip(Upper(rank)),
         full_name |-> Strip(Upper(full_name)),
         company |-> Strip(Upper(company)),
         unit |-> Strip(Upper(unit)),
         contact_number |-> contact_number,
         registered |-> TRUE,
         state |-> IDLE,
         temp_data |-> EmptyDict])

register_user(w, u, rank, full_name, company, unit, contact_number) ==
    _update_user_profile(w, u,
        [rank |-> Strip(Upper(rank)),
         full_name |-> Strip(Upper(full_name)),
         company |-> Strip(Upper(company)),
         unit |-> Strip(Upper(unit)),
         contact_number |-> clean_contact(contact_number),
         registered |-> TRUE,
         state |-> IDLE,
         temp_data |-> EmptyDict])

\* update_single_field that stores the value as it was typed.
update_single_field_as_typed(w, u, field, value) ==
    The({IF ~w1.data[u].registered
         THEN [w1 EXCEPT !.ok = FALSE]
         ELSE _update_user_profile(w1, u, [f \in {field} |-> value]) :
         w1 \in {_get_user_profile(w, u)}})

\* field is the profile key; the result's ok is the method's return value.
update_single_field(w, u, field, value) ==
    The({IF ~w1.data[u].registered
         THEN [w1 EXCEPT !.ok = FALSE]
         ELSE _update_user_profile(w1, u,
                  IF field = "contact_number"
                  THEN [f \in {field} |-> clean_contact(value)]
                  ELSE [f \in {field} |-> Strip(Upper(value))]) :
         w1 \in {_get_user_profile(w, u)}})

ir_keys == {"ir_type", "nature_type", "date_incident", "time_incident",
            "serviceman_details", "location", "injury_damage", "description",
            "followup"}

\* start_ir_creation without the removal of the draft keys.
start_ir_creation_keeping_draft(w, u) ==
    set_user_state(w, u, AWAITING_IR_TYPE)

start_ir_creation(w, u) ==
    The({_update_user_profile(w1, u,
             [temp_data |-> DictPopAll(w1.data[u].temp_data, ir_keys)]) :
         w1 \in {set_user_state(w, u, AWAITING_IR_TYPE)}})

get_comprehensive_ir_data(w, u) ==
    [k \in ir_keys |-> DictGet(w.data[u].temp_data, k, <<>>)]

\* Returns the world; the ir_data it returns is
\* get_comprehensive_ir_data of the world it was called on.
complete_comprehensive_ir_creation(w, u) == set_user_state(w, u, IDLE)

(***************************************************************************)
(* ResponseService.generate_comprehensive_ir_report: IR_TEMPLATE.format.   *)
(* The text is the sequence of its characters, each run of fixed template  *)
(* text being one element.                                                 *)
(***************************************************************************)
\* A renderer that numbers the reports it has produced: not a function of
\* its arguments alone.
generate_comprehensive_ir_report_numbered(ir_data, user_particulars) ==
    <<"Report ", ToString(Len(call.results) + 1), "\n">> \o ir_data.date_incident \o <<" / ">> \o user_particulars.unit \o <<" - ">> \o ir_data.ir_type \o <<"\n">> \o ir_data.description

generate_comprehensive_ir_report(ir_data, user_particulars) ==
    ir_data.date_incident \o <<" / ">> \o user_particulars.unit
    \o <<" / XX / ">> \o user_particulars.company \o <<" - ">> \o ir_data.ir_type
    \o <<"\n1) Nature and Type of Incident:\n">> \o ir_data.nature_type
    \o <<"\n\n2) Date and Time of Incident:\n">> \o ir_data.date_incident
    \o <<" ">> \o ir_data.time_incident \o <<"HRS">>
    \o <<"\n\n3) Serviceman Involved:\n">> \o ir_data.serviceman_details
    \o <<"\n\n4) Location of Incident:\n">> \o ir_data.location
    \o <<"\n\n5) Injury/Damage:\n">> \o ir_data.injury_damage
    \o <<"\n\n6) Brief Description of Incident:\n">> \o ir_data.description
    \o <<"\n\n7) Follow Up Updates:\n">> \o ir_data.followup
    \o <<"\n\n8) Stakeholder informed:\na) NOK:YES\nb) Date/Time of Verbal Report to GSOC:\nc) Date/Time of ESIS Report:\nd) Date/Time reported to 9DIV DOO:\n\n9) Unit Reporting POC:\n">>
    \o user_particulars.rank \o <<" ">> \o user_particulars.full_name
    \o <<"\nPC / ">> \o user_particulars.company \o <<"/ ">>
    \o user_particulars.unit \o <<"\n">> \o user_particulars.contact_number

(***************************************************************************)
(* CommandHandler                                                          *)
(***************************************************************************)

\* start_command that restarts the registration of every user, registered
\* or not.
start_command_restarting_registration(w, u) ==
    Catch(_update_user_profile(
              Send(_get_user_profile(w, u), <<Message("rank_prompt", "none")>>),
              u, [state |-> AWAITING_RANK, registered |-> FALSE]), u)

\* start_command without the check of is_user_registered.
start_command_unchecked(w, u) ==
    Catch(set_user_state(
              Send(_get_user_profile(w, u), <<Message("rank_prompt", "none")>>),
              u, AWAITING_RANK), u)

start_command(w, u) ==
    Catch(The({IF is_user_registered(w1, u)
               THEN set_user_state(
                        Send(w1, <<Message("welcome_back", "main_menu")>>),
                        u, IDLE)
               ELSE set_user_state(
                        Send(w1, <<Message("rank_prompt", "none")>>),
                        u, AWAITING_RANK) :
               w1 \in {_get_user_profile(w, u)}}), u)

(***************************************************************************)
(* MessageHandler: registration inputs.  A handler's statements are        *)
(* composed inside out: set_user_state(Send(store(w))) is store, then      *)
(* send, then set state.                                                   *)
(***************************************************************************)

\* _handle_rank_input that stages the text before it validates it.
_handle_rank_input_staging_first(w, u, rank_input) ==
    IF validate_rank(rank_input)
    THEN set_user_state(
             Send(store_user_temp_data(w, u, "rank", Strip(Upper(rank_input))),
                  <<Message("name_prompt", "none")>>),
             u, AWAITING_NAME)
    ELSE Send(store_user_temp_data(w, u, "rank", Strip(Upper(rank_input))),
              <<Message("validation_error", "none")>>)

_handle_rank_input(w, u, rank_input) ==
    IF validate_rank(rank_input)
    THEN set_user_state(
             Send(store_user_temp_data(w, u, "rank", Strip(Upper(rank_input))),
                  <<Message("name_prompt", "none")>>),
             u, AWAITING_NAME)
    ELSE Send(w, <<Message("validation_error", "none")>>)

\* _handle_name_input that also writes the name into the record's own field.
_handle_name_input_writing_profile(w, u, name_input) ==
    IF validate_name(name_input)
    THEN set_user_state(
             Send(_update_user_profile(
                      store_user_temp_data(w, u, "full_name",
                                           Strip(Upper(name_input))),
                      u, [full_name |-> Strip(Upper(name_input))]),
                  <<Message("company_prompt", "none")>>),
             u, AWAITING_COMPANY)
    ELSE Send(w, <<Message("validation_error", "none")>>)

_handle_name_input(w, u, name_input) ==
    IF validate_name(name_input)
    THEN set_user_state(
             Send(store_user_temp_data(w, u, "full_name",
                                       Strip(Upper(name_input))),
                  <<Message("company_prompt", "none")>>),
             u, AWAITING_COMPANY)
    ELSE Send(w, <<Message("validation_error", "none")>>)

_handle_company_input(w, u, company_input) ==
    IF validate_company(company_input)
    THEN set_user_state(
             Send(store_user_temp_data(w, u, "company",
                                       Strip(Upper(company_input))),
                  <<Message("unit_prompt", "none")>>),
             u, AWAITING_UNIT)
    ELSE Send(w, <<Message("validation_error", "none")>>)

\* _handle_unit_input that prompts for the contact number without staging
\* the unit.
_handle_unit_input_without_staging(w, u, unit_input) ==
    IF validate_unit(unit_input)
    THEN set_user_state(Send(w, <<Message("contact_prompt", "none")>>),
                        u, AWAITING_CONTACT)
    ELSE Send(w, <<Message("validation_error", "none")>>)

_handle_unit_input(w, u, unit_input) ==
    IF validate_unit(unit_input)
    THEN set_user_state(
             Send(store_user_temp_data(w, u, "unit", Strip(Upper(unit_input))),
                  <<Message("contact_prompt", "none")>>),
             u, AWAITING_CONTACT)
    ELSE Send(w, <<Message("validation_error", "none")>>)

\* _handle_contact_input without the validation of the contact number.
_handle_contact_input_unvalidated(w, u, contact_input) ==
    IF ~(/\ Truthy(get_user_temp_data(w, u, "rank"))
         /\ Truthy(get_user_temp_data(w, u, "full_name"))
         /\ Truthy(get_user_temp_data(w, u, "company"))
         /\ Truthy(get_user_temp_data(w, u, "unit")))
    THEN Send(w, <<Message("registration_restart", "none")>>)
    ELSE The({IF w1.ok
              THEN Send(w1, <<Message("registration_success", "main_menu")>>)
              ELSE Send(w1, <<Message("system_error", "none")>>) :
              w1 \in {register_user(w, u,
                          get_user_temp_data(w, u, "rank"),
                          get_user_temp_data(w, u, "full_name"),
                          get_user_temp_data(w, u, "company"),
                          get_user_temp_data(w, u, "unit"),
                          contact_input)}})

_handle_contact_input(w, u, contact_input) ==
    IF validate_contact_number(contact_input)
    THEN IF ~(/\ Truthy(get_user_temp_data(w, u, "rank"))
              /\ Truthy(get_user_temp_data(w, u, "full_name"))
              /\ Truthy(get_user_temp_data(w, u, "company"))
              /\ Truthy(get_user_temp_data(w, u, "unit")))
         THEN Send(w, <<Message("registration_restart", "none")>>)
         ELSE The({IF w1.ok
                   THEN Send(w1, <<Message("registration_success",
                                           "main_menu")>>)
                   ELSE Send(w1, <<Message("system_error", "none")>>) :
                   w1 \in {register_user(w, u,
                               get_user_temp_data(w, u, "rank"),
                               get_user_temp_data(w, u, "full_name"),
                               get_user_temp_data(w, u, "company"),
                               get_user_temp_data(w, u, "unit"),
                               contact_input)}})
    ELSE Send(w, <<Message("validation_error", "none")>>)

(***************************************************************************)
(* MessageHandler: report inputs                                           *)
(***************************************************************************)

FINAL_FOLLOWUP == <<"T", "h", "i", "s", " ", "s", "e", "r", "v", "e", "s", " ", "a", "s", " ", "a", " ", "f", "i", "n", "a", "l", " ", "r", "e", "p", "o", "r", "t">>

\* ir_data is read before complete_comprehensive_ir_creation sets IDLE;
\* user_particulars.get raises on None and the except block replies.
_generate_comprehensive_ir_report(w, u) ==
    The({IF get_user_particulars(w1, u) = <<>>
         THEN Catch(Raise(w1), u)
         ELSE Catch(
                  Send(Send([w1 EXCEPT !.report =
                                <<[ir_data |-> get_comprehensive_ir_data(w, u),
                                   user_particulars |->
                                       get_user_particulars(w1, u)[1],
                                   text |->
                                       generate_comprehensive_ir_report(
                                           get_comprehensive_ir_data(w, u),
                                           get_user_particulars(w1, u)[1])]>>],
                            <<Message("report", "none")>>),
                       <<Message("ir_completion", "main_menu")>>),
                  u) :
         w1 \in {complete_comprehensive_ir_creation(w, u)}})

_handle_date_time_input(w, u, date_time_input) ==
    IF validate_date_time(date_time_input).valid
    THEN set_user_state(
             Send(store_ir_data(
                      store_ir_data(w, u, "date_incident",
                          validate_date_time(date_time_input).date_part),
                      u, "time_incident",
                      validate_date_time(date_time_input).time_part),
                  <<Message("serviceman_prompt", "none")>>),
             u, AWAITING_SERVICEMAN)
    ELSE Send(w, <<Message("validation_error", "none")>>)

_handle_serviceman_input(w, u, serviceman_input) ==
    IF validate_serviceman_details(serviceman_input).valid
    THEN set_user_state(
             Send(store_ir_data(w, u, "serviceman_details",
                      validate_serviceman_details(serviceman_input).formatted),
                  <<Message("location_prompt", "none")>>),
             u, AWAITING_LOCATION)
    ELSE Send(w, <<Message("validation_error", "none")>>)

_handle_location_input(w, u, location_input) ==
    IF validate_ir_content(location_input)
    THEN set_user_state(
             Send(store_ir_data(w, u, "location", Strip(location_input)),
                  <<Message("injury_prompt", "none")>>),
             u, AWAITING_INJURY)
    ELSE Send(w, <<Message("validation_error", "none")>>)

_handle_injury_input(w, u, injury_input) ==
    IF validate_ir_content(injury_input)
    THEN set_user_state(
             Send(store_ir_data(w, u, "injury_damage", Strip(injury_input)),
                  <<Message("description_prompt", "none")>>),
             u, AWAITING_DESCRIPTION)
    ELSE Send(w, <<Message("validation_error", "none")>>)

_handle_description_input(w, u, description_input) ==
    IF validate_ir_content(description_input)
    THEN The({IF /\ Truthy(get_user_temp_data(w1, u, "ir_type"))
                 /\ Contains(get_user_temp_data(w1, u, "ir_type"), <<"F", "I", "N", "A", "L">>)
              THEN _generate_comprehensive_ir_report(
                       store_ir_data(w1, u, "followup", FINAL_FOLLOWUP), u)
              ELSE set_user_state(
                       Send(w1, <<Message("followup_prompt", "none")>>),
                       u, AWAITING_FOLLOWUP) :
              w1 \in {store_ir_data(w, u, "description",
                                    Strip(description_input))}})
    ELSE Send(w, <<Message("validation_error", "none")>>)

_handle_followup_input(w, u, followup_input) ==
    IF validate_ir_content(followup_input)
    THEN _generate_comprehensive_ir_report(
             store_ir_data(w, u, "followup", Strip(followup_input)), u)
    ELSE Send(w, <<Message("validation_error", "none")>>)

(***************************************************************************)
(* MessageHandler: single-field edits                                      *)
(***************************************************************************)

_handle_rank_edit(w, u, rank_input) ==
    IF validate_rank(rank_input)
    THEN The({IF w1.ok
              THEN set_user_state(
                       Send(Send(w1, <<Message("field_updated", "none")>>),
                            <<Message("details_updated_view", "details_view")>>),
                       u, IDLE)
              ELSE Send(w1, <<Message("system_error", "none")>>) :
              w1 \in {update_single_field(w, u, "rank", rank_input)}})
    ELSE Send(w, <<Message("validation_error", "none")>>)

_handle_name_edit(w, u, name_input) ==
    IF validate_name(name_input)
    THEN The({IF w1.ok
              THEN set_user_state(
                       Send(Send(w1, <<Message("field_updated", "none")>>),
                            <<Message("details_updated_view", "details_view")>>),
                       u, IDLE)
              ELSE Send(w1, <<Message("system_error", "none")>>) :
              w1 \in {update_single_field(w, u, "full_name", name_input)}})
    ELSE Send(w, <<Message("validation_error", "none")>>)

_handle_company_edit(w, u, company_input) ==
    IF validate_company(company_input)
    THEN The({IF w1.ok
              THEN set_user_state(
                       Send(Send(w1, <<Message("field_updated", "none")>>),
                            <<Message("details_updated_view", "details_view")>>),
                       u, IDLE)
              ELSE Send(w1, <<Message("system_error", "none")>>) :
              w1 \in {update_single_field(w, u, "company", company_input)}})
    ELSE Send(w, <<Message("validation_error", "none")>>)

_handle_unit_edit(w, u, unit_input) ==
    IF validate_unit(unit_input)
    THEN The({IF w1.ok
              THEN set_user_state(
                       Send(Send(w1, <<Message("field_updated", "none")>>),
                            <<Message("details_updated_view", "details_view")>>),
                       u, IDLE)
              ELSE Send(w1, <<Message("system_error", "none")>>) :
              w1 \in {update_single_field(w, u, "unit", unit_input)}})
    ELSE Send(w, <<Message("validation_error", "none")>>)

_handle_contact_edit(w, u, contact_input) ==
    IF validate_contact_number(contact_input)
    THEN The({IF w1.ok
              THEN set_user_state(
                       Send(Send(w1, <<Message("field_updated", "none")>>),
                            <<Message("details_updated_view", "details_view")>>),
                       u, IDLE)
              ELSE Send(w1, <<Message("system_error", "none")>>) :
              w1 \in {update_single_field(w, u, "contact_number",
                                          contact_input)}})
    ELSE Send(w, <<Message("validation_error", "none")>>)

\* MessageHandler.handle_message: strip the text, dispatch on the state.
handle_message(w, u, text) ==
    Catch(The({
        CASE get_user_state(w1, u) = AWAITING_RANK ->
                 _handle_rank_input(w1, u, Strip(text))
          [] get_user_state(w1, u) = AWAITING_NAME ->
                 _handle_name_input(w1, u, Strip(text))
          [] get_user_state(w1, u) = AWAITING_COMPANY ->
                 _handle_company_input(w1, u, Strip(text))
          [] get_user_state(w1, u) = AWAITING_UNIT ->
                 _handle_unit_input(w1, u, Strip(text))
          [] get_user_state(w1, u) = AWAITING_CONTACT ->
                 _handle_contact_input(w1, u, Strip(text))
          [] get_user_state(w1, u) = AWAITING_DATE_TIME ->
                 _handle_date_time_input(w1, u, Strip(text))
          [] get_user_state(w1, u) = AWAITING_SERVICEMAN ->
                 _handle_serviceman_input(w1, u, Strip(text))
          [] get_user_state(w1, u) = AWAITING_LOCATION ->
                 _handle_location_input(w1, u, Strip(text))
          [] get_user_state(w1, u) = AWAITING_INJURY ->
                 _handle_injury_input(w1, u, Strip(text))
          [] get_user_state(w1, u) = AWAITING_DESCRIPTION ->
                 _handle_description_input(w1, u, Strip(text))
          [] get_user_state(w1, u) = AWAITING_FOLLOWUP ->
                 _handle_followup_input(w1, u, Strip(text))
          [] get_user_state(w1, u) = EDITING_RANK ->
                 _handle_rank_edit(w1, u, Strip(text))
          [] get_user_state(w1, u) = EDITING_NAME ->
                 _handle_name_edit(w1, u, Strip(text))
          [] get_user_state(w1, u) = EDITING_COMPANY ->
                 _handle_company_edit(w1, u, Strip(text))
          [] get_user_state(w1, u) = EDITING_UNIT ->
                 _handle_unit_edit(w1, u, Strip(text))
          [] get_user_state(w1, u) = EDITING_CONTACT ->
                 _handle_contact_edit(w1, u, Strip(text))
          [] OTHER -> Send(w1, <<Message("use_start", "none")>>) :
        w1 \in {_get_user_profile(w, u)}}), u)

(***************************************************************************)
(* InlineKeyboardService: each keyboard is its rows of buttons.            *)
(***************************************************************************)

get_main_menu_keyboard ==
    <<[label |-> "New IR", callback_data |-> <<"n", "e", "w", "_", "i", "r">>],
      [label |-> "My Details", callback_data |-> <<"m", "y", "_", "d", "e", "t", "a", "i", "l", "s">>]>>

get_details_view_keyboard ==
    <<[label |-> "Edit Rank", callback_data |-> <<"e", "d", "i", "t", "_", "r", "a", "n", "k">>],
      [label |-> "Edit Name", callback_data |-> <<"e", "d", "i", "t", "_", "n", "a", "m", "e">>],
      [label |-> "Edit Company", callback_data |-> <<"e", "d", "i", "t", "_", "c", "o", "m", "p", "a", "n", "y">>],
      [label |-> "Edit Unit", callback_data |-> <<"e", "d", "i", "t", "_", "u", "n", "i", "t">>],
      [label |-> "Edit Contact", callback_data |-> <<"e", "d", "i", "t", "_", "c", "o", "n", "t", "a", "c", "t">>],
      [label |-> "Back to Main Menu", callback_data |-> <<"b", "a", "c", "k", "_", "t", "o", "_", "m", "a", "i", "n">>]>>

\* get_ir_type_keyboard whose identifiers keep the "&" of the label.
get_ir_type_keyboard_keeping_ampersand ==
    [i \in 1..Len(IR_TYPES) |->
        [label |-> IR_TYPES[i],
         callback_data |->
            <<"i", "r", "_", "t", "y", "p", "e", "_">>
            \o Lower(Replace(IR_TYPES[i], <<" ">>, <<"_">>))]]

get_ir_type_keyboard ==
    [i \in 1..Len(IR_TYPES) |->
        [label |-> IR_TYPES[i],
         callback_data |->
            <<"i", "r", "_", "t", "y", "p", "e", "_">>
            \o Lower(Replace(Replace(IR_TYPES[i], <<" ">>, <<"_">>),
                             <<"&">>, <<"A","N","D">>))]]

get_nature_type_keyboard ==
    [i \in 1..Len(NATURE_TYPES) |->
        [label |-> NATURE_TYPES[i],
         callback_data |->
            <<"n", "a", "t", "u", "r", "e", "_">>
            \o Lower(Replace(Replace(NATURE_TYPES[i], <<" ">>, <<"_">>),
                             <<"-">>, <<"_">>))]]

(***************************************************************************)
(* CallbackHandler                                                         *)
(***************************************************************************)

\* _handle_new_ir without the registration check.
_handle_new_ir_unchecked(w, u) ==
    Send(start_ir_creation(w, u), <<Message("select_ir_type", "ir_type")>>)

_handle_new_ir(w, u) ==
    The({IF ~is_user_registered(w1, u)
         THEN Send(w1, <<Message("register_first", "none")>>)
         ELSE Send(start_ir_creation(w1, u),
                   <<Message("select_ir_type", "ir_type")>>) :
         w1 \in {_get_user_profile(w, u)}})

ir_type_map ==
    [d \in {<<"i", "r", "_", "t", "y", "p", "e", "_", "i", "n", "i", "t", "i", "a", "l">>,
            <<"i", "r", "_", "t", "y", "p", "e", "_", "i", "n", "i", "t", "i", "a", "l", "_", "a", "n", "d", "_", "f", "i", "n", "a", "l">>,
            <<"i", "r", "_", "t", "y", "p", "e", "_", "u", "p", "d", "a", "t", "e">>,
            <<"i", "r", "_", "t", "y", "p", "e", "_", "u", "p", "d", "a", "t", "e", "_", "a", "n", "d", "_", "f", "i", "n", "a", "l">>} |->
        CASE d = <<"i", "r", "_", "t", "y", "p", "e", "_", "i", "n", "i", "t", "i", "a", "l">> -> <<"I", "N", "I", "T", "I", "A", "L">>
          [] d = <<"i", "r", "_", "t", "y", "p", "e", "_", "i", "n", "i", "t", "i", "a", "l", "_", "a", "n", "d", "_", "f", "i", "n", "a", "l">> -> <<"I", "N", "I", "T", "I", "A", "L", " ", "&", " ", "F", "I", "N", "A", "L">>
          [] d = <<"i", "r", "_", "t", "y", "p", "e", "_", "u", "p", "d", "a", "t", "e">> -> <<"U", "P", "D", "A", "T", "E">>
          [] d = <<"i", "r", "_", "t", "y", "p", "e", "_", "u", "p", "d", "a", "t", "e", "_", "a", "n", "d", "_", "f", "i", "n", "a", "l">> -> <<"U", "P", "D", "A", "T", "E", " ", "&", " ", "F", "I", "N", "A", "L">>]

\* _handle_ir_type_selection that stores the type and leaves the state as
\* it is.
_handle_ir_type_selection_keeping_state(w, u, callback_data) ==
    IF ~Truthy(DictGet(ir_type_map, callback_data, None))
    THEN Send(w, <<Message("invalid_ir_type", "none")>>)
    ELSE Send(store_ir_data(w, u, "ir_type", ir_type_map[callback_data]),
              <<Message("select_nature_type", "nature_type")>>)

_handle_ir_type_selection(w, u, callback_data) ==
    IF ~Truthy(DictGet(ir_type_map, callback_data, None))
    THEN Send(w, <<Message("invalid_ir_type", "none")>>)
    ELSE Send(set_user_state(
                  store_ir_data(w, u, "ir_type", ir_type_map[callback_data]),
                  u, AWAITING_NATURE_TYPE),
              <<Message("select_nature_type", "nature_type")>>)

nature_type_map ==
    [d \in {<<"n", "a", "t", "u", "r", "e", "_", "n", "o", "n", "_", "t", "r", "a", "i", "n", "i", "n", "g", "_", "r", "e", "l", "a", "t", "e", "d">>,
            <<"n", "a", "t", "u", "r", "e", "_", "t", "r", "a", "i", "n", "i", "n", "g", "_", "r", "e", "l", "a", "t", "e", "d">>} |->
        CASE d = <<"n", "a", "t", "u", "r", "e", "_", "n", "o", "n", "_", "t", "r", "a", "i", "n", "i", "n", "g", "_", "r", "e", "l", "a", "t", "e", "d">> -> <<"N", "O", "N", "-", "T", "R", "A", "I", "N", "I", "N", "G", " ", "R", "E", "L", "A", "T", "E", "D">>
          [] d = <<"n", "a", "t", "u", "r", "e", "_", "t", "r", "a", "i", "n", "i", "n", "g", "_", "r", "e", "l", "a", "t", "e", "d">> -> <<"T", "R", "A", "I", "N", "I", "N", "G", " ", "R", "E", "L", "A", "T", "E", "D">>]

_handle_nature_type_selection(w, u, callback_data) ==
    IF ~Truthy(DictGet(nature_type_map, callback_data, None))
    THEN Send(w, <<Message("invalid_nature_type", "none")>>)
    ELSE Send(set_user_state(
                  store_ir_data(w, u, "nature_type",
                                nature_type_map[callback_data]),
                  u, AWAITING_DATE_TIME),
              <<Message("date_time_prompt", "none")>>)

_handle_my_details(w, u) ==
    The({IF ~is_user_registered(w1, u)
         THEN Send(w1, <<Message("register_first", "none")>>)
         ELSE IF get_user_particulars(w1, u) = <<>>
         THEN Send(w1, <<Message("details_error", "none")>>)
         ELSE Send(w1, <<Message("details_view", "details_view")>>) :
         w1 \in {_get_user_profile(w, u)}})

field_state_map ==
    [f \in {<<"r", "a", "n", "k">>, <<"n", "a", "m", "e">>, <<"c", "o", "m", "p", "a", "n", "y">>, <<"u", "n", "i", "t">>, <<"c", "o", "n", "t", "a", "c", "t">>} |->
        CASE f = <<"r", "a", "n", "k">> -> EDITING_RANK
          [] f = <<"n", "a", "m", "e">> -> EDITING_NAME
          [] f = <<"c", "o", "m", "p", "a", "n", "y">> -> EDITING_COMPANY
          [] f = <<"u", "n", "i", "t">> -> EDITING_UNIT
          [] f = <<"c", "o", "n", "t", "a", "c", "t">> -> EDITING_CONTACT]

_handle_edit_field(w, u, callback_data) ==
    The({IF get_user_particulars(w1, u) = <<>>
         THEN Send(w1, <<Message("details_error", "none")>>)
         ELSE IF Replace(callback_data, <<"e", "d", "i", "t", "_">>, <<>>)
                 \notin DOMAIN field_state_map
         THEN Send(w1, <<Message("invalid_field", "none")>>)
         ELSE Send(set_user_state(w1, u,
                       field_state_map[Replace(callback_data, <<"e", "d", "i", "t", "_">>, <<>>)]),
                   <<Message("edit_prompt", "none")>>) :
         w1 \in {_get_user_profile(w, u)}})

_handle_back_to_main(w, u) ==
    set_user_state(
        Send(_get_user_profile(w, u), <<Message("welcome_back", "main_menu")>>),
        u, IDLE)

\* The branch of handle_callback's if/elif chain that query.data takes.
route(data) ==
    IF data = <<"n", "e", "w", "_", "i", "r">> THEN "new_ir"
    ELSE IF StartsWith(data, <<"i", "r", "_", "t", "y", "p", "e", "_">>) THEN "ir_type"
    ELSE IF StartsWith(data, <<"n", "a", "t", "u", "r", "e", "_">>) THEN "nature"
    ELSE IF data = <<"m", "y", "_", "d", "e", "t", "a", "i", "l", "s">> THEN "my_details"
    ELSE IF StartsWith(data, <<"e", "d", "i", "t", "_">>) THEN "edit"
    ELSE IF data = <<"b", "a", "c", "k", "_", "t", "o", "_", "m", "a", "i", "n">> THEN "back_to_main"
    ELSE "none"

\* CallbackHandler.handle_callback: acknowledge, dispatch on query.data.
handle_callback(w, u, data) ==
    Catch(The({
        IF w1.exc THEN w1
        ELSE CASE route(data) = "new_ir" -> _handle_new_ir(w1, u)
               [] route(data) = "ir_type" ->
                      _handle_ir_type_selection(w1, u, data)
               [] route(data) = "nature" ->
                      _handle_nature_type_selection(w1, u, data)
               [] route(data) = "my_details" -> _handle_my_details(w1, u)
               [] route(data) = "edit" -> _handle_edit_field(w1, u, data)
               [] route(data) = "back_to_main" -> _handle_back_to_main(w1, u)
               [] OTHER -> w1 :
        w1 \in {Send(w, <<>>)}}), u)

(***************************************************************************)
(* The inbound events the model draws from.                                *)
(***************************************************************************)

Users == {"u1"}

RankTexts == {<<" ","c","p","l">>, <<"X","X">>}

RankEditTexts == {<<"3","s","g"," ">>, <<"X","X">>}

NameTexts == {<<"T","a","n">>, <<"t","4","n">>}

NameEditTexts == {<<"l","i","m"," ">>, <<"t","4","n">>}

CompanyTexts == {<<"a","l","p","h","a">>, <<"a","+","b">>}

CompanyEditTexts == {<<"B"," ","c","o","y">>, <<"a","+","b">>}

UnitTexts == {<<"1"," ","b","n">>, <<"#","1">>}

UnitEditTexts == {<<"2","b","n","/","h","q">>, <<"#","1">>}

ContactTexts == {<<"+","6","5"," ","9","1","2","3"," ","4","5","6","7">>, <<"7","1","2","3","4","5","6","7">>}

ContactEditTexts == {<<"8","1","2","3","-","4","5","6","7">>, <<"7","1","2","3","4","5","6","7">>}

DateTimeTexts == {<<"1","6","0","6","2","5"," ","1","7","3","0","h","r","s">>, <<"3","2","0","6","2","5"," ","1","7","3","0","H","R","S">>}

ServicemanTexts == {<<"t","0","1","2","3","4","5","6","d","/","p","t","e"," ","t","a","n","/","s","1","2","3","4","/","n","s","f","/","p","e","s"," ","b","1">>,
                    <<"T","0","1","2","3","4","5","6","D","/","P","T","E"," ","T","A","N","/","S","1","2","3","4","/","N","S","F","/","P","E","S"," ","G","9">>}

ContentTexts == {<<" ","m","c"," ">>, <<" ">>}

\* Buttons of the keyboards the bot sends can be pressed in every state (a
\* keyboard stays on screen after the state has moved on).  An identifier
\* that is on no keyboard is tried in the state its menu belongs to.
IrTypeCallbacks(state) ==
    {get_ir_type_keyboard[i].callback_data : i \in {1, 4}}
    \cup (IF state = AWAITING_IR_TYPE
          THEN {<<"i","r","_","t","y","p","e","_","f","i","n","a","l">>}
          ELSE {})

NatureTypeCallbacks(state) ==
    {get_nature_type_keyboard[2].callback_data}
    \cup (IF state = AWAITING_NATURE_TYPE
          THEN {<<"n","a","t","u","r","e","_","o","t","h","e","r">>}
          ELSE {})

EditCallbacks(state) ==
    {get_details_view_keyboard[i].callback_data : i \in 1..5}
    \cup (IF state = IDLE
          THEN {<<"e","d","i","t","_","e","m","a","i","l">>}
          ELSE {})

OtherCallbacks == {<<"h","e","l","p">>}

OtherTexts == {<<"h","i">>}

(***************************************************************************)
(* Actions: one per handler.                                               *)
(***************************************************************************)

StateOf(u) == IF u \in DOMAIN users_data THEN users_data[u].state ELSE IDLE

Commit(w, u, kind, data) ==
    /\ users_data' = w.data
    /\ saved_users' = w.file
    /\ last' = [user |-> u, kind |-> kind, data |-> data, from |-> StateOf(u),
                out |-> w.out, report |-> w.report, failed |-> w.failed]
    /\ UNCHANGED call

\* The environment's choice o took effect in the run that ended in w: the
\* dump it fails was made and the send it fails was attempted.  (A choice
\* that names a dump or a send the handler never makes is the same run as
\* the choice 0.)
TookEffect(o, w) ==
    /\ o.badSave = 0 \/ w.failed
    /\ o.badSend = 0 \/ w.nsend >= o.badSend
    /\ faults' = faults + Faults(o)

Text(u, text) ==
    \E o \in Oracles :
        \E w \in {handle_message(Begin(o), u, text)} :
            TookEffect(o, w) /\ Commit(w, u, "text", text)

TextEvent(u, text) == Text(u, text) /\ UNCHANGED edits

\* A text sent to an EDITING state; valid says that the state's validator
\* accepts it.
EditEvent(u, text, valid) ==
    /\ valid => edits < MaxEdits
    /\ Text(u, text)
    /\ edits' = IF valid THEN edits + 1 ELSE edits

CallbackEvent(u, data) ==
    /\ \E o \in Oracles :
           \E w \in {handle_callback(Begin(o), u, data)} :
               TookEffect(o, w) /\ Commit(w, u, route(data), data)
    /\ UNCHANGED edits

StartCommand(u) ==
    /\ \E o \in Oracles :
           \E w \in {start_command(Begin(o), u)} :
               TookEffect(o, w) /\ Commit(w, u, "start", <<>>)
    /\ UNCHANGED edits

HandleRankInput(u) ==
    StateOf(u) = AWAITING_RANK /\ \E text \in RankTexts : TextEvent(u, text)

HandleNameInput(u) ==
    StateOf(u) = AWAITING_NAME /\ \E text \in NameTexts : TextEvent(u, text)

HandleCompanyInput(u) ==
    StateOf(u) = AWAITING_COMPANY /\ \E text \in CompanyTexts : TextEvent(u, text)

HandleUnitInput(u) ==
    StateOf(u) = AWAITING_UNIT /\ \E text \in UnitTexts : TextEvent(u, text)

HandleContactInput(u) ==
    StateOf(u) = AWAITING_CONTACT /\ \E text \in ContactTexts : TextEvent(u, text)

HandleDateTimeInput(u) ==
    StateOf(u) = AWAITING_DATE_TIME /\ \E text \in DateTimeTexts : TextEvent(u, text)

HandleServicemanInput(u) ==
    /\ StateOf(u) = AWAITING_SERVICEMAN
    /\ \E text \in ServicemanTexts : TextEvent(u, text)

HandleLocationInput(u) ==
    StateOf(u) = AWAITING_LOCATION /\ \E text \in ContentTexts : TextEvent(u, text)

HandleInjuryInput(u) ==
    StateOf(u) = AWAITING_INJURY /\ \E text \in ContentTexts : TextEvent(u, text)

HandleDescriptionInput(u) ==
    /\ StateOf(u) = AWAITING_DESCRIPTION
    /\ \E text \in ContentTexts : TextEvent(u, text)

HandleFollowupInput(u) ==
    StateOf(u) = AWAITING_FOLLOWUP /\ \E text \in ContentTexts : TextEvent(u, text)

HandleRankEdit(u) ==
    StateOf(u) = EDITING_RANK /\ \E text \in RankEditTexts : EditEvent(u, text, validate_rank(text))

HandleNameEdit(u) ==
    StateOf(u) = EDITING_NAME /\ \E text \in NameEditTexts : EditEvent(u, text, validate_name(text))

HandleCompanyEdit(u) ==
    StateOf(u) = EDITING_COMPANY /\ \E text \in CompanyEditTexts : EditEvent(u, text, validate_company(text))

HandleUnitEdit(u) ==
    StateOf(u) = EDITING_UNIT /\ \E text \in UnitEditTexts : EditEvent(u, text, validate_unit(text))

HandleContactEdit(u) ==
    StateOf(u) = EDITING_CONTACT /\ \E text \in ContactEditTexts : EditEvent(u, text, validate_contact_number(text))

\* A text message in a state that expects none (idle, or a menu state).
HandleOtherMessage(u) ==
    /\ StateOf(u) \in {IDLE, AWAITING_IR_TYPE, AWAITING_NATURE_TYPE}
    /\ \E text \in OtherTexts : TextEvent(u, text)

HandleNewIr(u) == CallbackEvent(u, <<"n","e","w","_","i","r">>)

HandleIrTypeSelection(u) ==
    \E data \in IrTypeCallbacks(StateOf(u)) : CallbackEvent(u, data)

HandleNatureTypeSelection(u) ==
    \E data \in NatureTypeCallbacks(StateOf(u)) : CallbackEvent(u, data)

HandleMyDetails(u) == CallbackEvent(u, <<"m","y","_","d","e","t","a","i","l","s">>)

HandleEditField(u) ==
    \E data \in EditCallbacks(StateOf(u)) : CallbackEvent(u, data)

HandleBackToMain(u) == CallbackEvent(u, <<"b","a","c","k","_","t","o","_","m","a","i","n">>)

HandleOtherCallback(u) ==
    /\ StateOf(u) = IDLE
    /\ \E data \in OtherCallbacks : CallbackEvent(u, data)

Init ==
    /\ users_data = EmptyDict
    /\ saved_users = EmptyDict
    /\ faults = 0
    /\ edits = 0
    /\ last = [user |-> "none", kind |-> "none", data |-> <<>>, from |-> IDLE,
               out |-> <<>>, report |-> <<>>, failed |-> FALSE]
    /\ call = [fn |-> "none", arg |-> <<>>, results |-> <<>>]

Next ==
    \E u \in Users :
        \/ StartCommand(u)
        \/ HandleRankInput(u)
        \/ HandleNameInput(u)
        \/ HandleCompanyInput(u)
        \/ HandleUnitInput(u)
        \/ HandleContactInput(u)
        \/ HandleDateTimeInput(u)
        \/ HandleServicemanInput(u)
        \/ HandleLocationInput(u)
        \/ HandleInjuryInput(u)
        \/ HandleDescriptionInput(u)
        \/ HandleFollowupInput(u)
        \/ HandleRankEdit(u)
        \/ HandleNameEdit(u)
        \/ HandleCompanyEdit(u)
        \/ HandleUnitEdit(u)
        \/ HandleContactEdit(u)
        \/ HandleOtherMessage(u)
        \/ HandleNewIr(u)
        \/ HandleIrTypeSelection(u)
        \/ HandleNatureTypeSelection(u)
        \/ HandleMyDetails(u)
        \/ HandleEditField(u)
        \/ HandleBackToMain(u)
        \/ HandleOtherCallback(u)

Spec == Init /\ [][Next]_vars

(***************************************************************************)
(* The bot when every dump and every send succeeds and updates keep        *)
(* arriving: the transport hands every update to its handler, and the user *)
(* goes on sending (any event of Next, expected by the state or not).      *)
(***************************************************************************)

\* The state after construction, with no failure to come.
FairInit ==
    /\ users_data = EmptyDict
    /\ saved_users = EmptyDict
    /\ faults = MaxFaults
    /\ edits = 0
    /\ last = [user |-> "none", kind |-> "none", data |-> <<>>, from |-> IDLE,
               out |-> <<>>, report |-> <<>>, failed |-> FALSE]
    /\ call = [fn |-> "none", arg |-> <<>>, results |-> <<>>]

FairSpec == FairInit /\ [][Next]_vars /\ WF_vars(Next)

(***************************************************************************)
(* The pure functions on their own: the validators, the contact            *)
(* normalisation and the renderer applied to arguments drawn from the sets *)
(* below.  call holds the function, its argument and the results of the    *)
(* applications made so far; the bot's state stays as constructed.         *)
(***************************************************************************)

\* At most this many applications of a function to one argument.
MaxCalls == 2

ContactArgs ==
    {<<"+", "6", "5", " ", "9", "1", "2", "3", " ", "4", "5", "6", "7">>, <<"9", "1", "2", "3", "4", "5", "6", "7">>, <<"9", "1", "2", "3", "-", "4", "5", "6", "7">>, <<"8", "1", "2", "3", "4", "5", "6", "7">>,
     <<" ", "(", "6", "5", ")", " ", "8", "1", "2", "3", "-", "4", "5", "6", "7", " ">>, <<"6", "5", "9", "1", "2", "3", "4", "5", "6", "7">>, <<"7", "1", "2", "3", "4", "5", "6", "7">>, <<"9", "1", "2", "3", "4", "5", "6">>,
     <<"9", "1", "2", "3", "4", "5", "6", "7", "8">>, <<"+", "6", "5", " ", "6", "5", "9", "1", "2", "3", "4", "5", "6", "7">>, <<"9", "1", "2", "3", "a", "5", "6", "7">>, <<" ">>,
     <<"6", "5", "9", "1", "2", "3", "4", "5", "6">>, <<"+", "6", "5", "9", "1", "2", "3", "4", "5", "6", "7">>}

DateTokens ==
    {<<"1", "6", "0", "6", "2", "5">>, <<"3", "1", "0", "2", "3", "1">>, <<"3", "2", "0", "6", "2", "5">>, <<"1", "6", "1", "3", "2", "5">>, <<"0", "0", "0", "6", "2", "5">>,
     <<"1", "6", "0", "0", "2", "5">>, <<"1", "6", "0", "6", "2">>, <<"1", "6", "0", "6", "2", "5", "5">>, <<"1", "6", "o", "6", "2", "5">>, <<"0", "1", "0", "1", "9", "9">>}

TimeTokens ==
    {<<"1", "7", "3", "0">>, <<"1", "7", "3", "0", "H", "R", "S">>, <<"1", "7", "3", "0", "h", "r", "s">>, <<"1", "7", "3", "0", "H", "R">>, <<"1", "7", "3", "0", "h", "R", "s">>,
     <<"2", "5", "0", "0", "H", "R", "S">>, <<"1", "7", "6", "0", "H", "R", "S">>, <<"2", "3", "5", "9", "h", "r", "s">>, <<"0", "0", "0", "0", "H", "R", "S">>, <<"1", "7", "3", "H", "R", "S">>,
     <<"1", "7", "3", "0", "H", "R", "S", "S">>, <<"1", "7", "3", "0", "H">>, <<"1", "7", "3", "0", "0">>, <<"2", "5", "0", "0">>}

\* date and time joined by one blank, and inputs with other token counts.
DateTimeArgs ==
    {d \o <<" ">> \o t : d \in DateTokens, t \in TimeTokens}
    \cup {<<"1", "6", "0", "6", "2", "5">>, <<" ", "1", "6", "0", "6", "2", "5", " ", "\t", " ", "1", "7", "3", "0", "H", "R", "S", " ">>, <<"1", "6", "0", "6", "2", "5", " ", "1", "7", "3", "0", " ", "H", "R", "S">>,
          <<"1", "6", "0", "6", "2", "5", "1", "7", "3", "0", "H", "R", "S">>, <<>>, <<" ">>}

NricTokens == {<<"T", "0", "1", "2", "3", "4", "5", "6", "D">>, <<"t", "0", "1", "2", "3", "4", "5", "6", "d">>, <<" ", "T", "0", "1", "2", "3", "4", "5", "6", "D", " ">>, <<"T", "0", "1", "2", "3", "4", "5", "D">>, <<"0", "1", "2", "3", "4", "5", "6", "7", "D">>}

PesTokens == {<<"P", "E", "S", " ", "B", "1">>, <<"p", "e", "s", " ", "b", "1">>, <<"P", "E", "S", " ", "G", "9">>, <<"P", "E", "S", " ", "B", "0">>, <<"P", "E", "S", "B", "1">>, <<"P", "E", "S", " ", "F", "9", " ">>}

NsfTokens == {<<"N", "S", "F">>, <<"n", "s", "f">>, <<"N", "S", "M", "E", "N">>}

ServicemanArgs ==
    {n \o <<"/">> \o <<"P", "T", "E", " ", "T", "A", "N", "/", "S", "1", "2", "3", "4">> \o <<"/">> \o f \o <<"/">> \o p :
         n \in NricTokens, f \in NsfTokens, p \in PesTokens}
    \cup {<<"T", "0", "1", "2", "3", "4", "5", "6", "D", "/", "P", "T", "E", " ", "T", "A", "N", "/", "S", "1", "2", "3", "4", "/", "N", "S", "F">>,
          <<"T", "0", "1", "2", "3", "4", "5", "6", "D", "/", "P", "T", "E", " ", "T", "A", "N", "/", "S", "1", "2", "3", "4", "/", "N", "S", "F", "/", "P", "E", "S", " ", "B", "1", "/">>,
          <<"T", "0", "1", "2", "3", "4", "5", "6", "D", "/", "/", "S", "1", "2", "3", "4", "/", "N", "S", "F", "/", "P", "E", "S", " ", "B", "1">>,
          <<"T", "0", "1", "2", "3", "4", "5", "6", "D", "/", " ", "/", "S", "1", "2", "3", "4", "/", "N", "S", "F", "/", "P", "E", "S", " ", "B", "1">>,
          <<"T", "0", "1", "2", "3", "4", "5", "6", "D", "/", "P", "T", "E", " ", "T", "A", "N", "/", " ", "/", "N", "S", "F", "/", "P", "E", "S", " ", "B", "1">>,
          <<"T", "0", "1", "2", "3", "4", "5", "6", "D", "/", "p", "t", "e", " ", "t", "a", "n", "/", " ", "s", "1", "2", "3", "4", " ", "/", "N", "S", "F", "/", "P", "E", "S", " ", "B", "1">>,
          <<>>}

\* Drafts as get_comprehensive_ir_data returns them and particulars as
\* get_user_particulars returns them.
RenderArgs ==
    {[ir_data |->
          [ir_type |-> t, nature_type |-> <<"T", "R", "A", "I", "N", "I", "N", "G", " ", "R", "E", "L", "A", "T", "E", "D">>,
           date_incident |-> <<"1", "6", "0", "6", "2", "5">>, time_incident |-> <<"1", "7", "3", "0">>,
           serviceman_details |-> <<"T", "/", "0", "1", "2", "3", "4", "5", "6", "D", "/", "P", "T", "E", " ", "T", "A", "N", "/", "S", "1", "2", "3", "4", "/", "N", "S", "F", "/", "P", "E", "S", " ", "B", "1">>,
           location |-> <<"c", "a", "m", "p">>, injury_damage |-> <<"n", "i", "l">>,
           description |-> d, followup |-> f],
      user_particulars |->
          [rank |-> r, full_name |-> <<"T", "A", "N">>, company |-> <<"A", "L", "P", "H", "A">>,
           unit |-> <<"1", " ", "B", "N">>, contact_number |-> <<"9", "1", "2", "3", "4", "5", "6", "7">>]] :
     t \in {<<"I", "N", "I", "T", "I", "A", "L">>, <<"U", "P", "D", "A", "T", "E", " ", "&", " ", "F", "I", "N", "A", "L">>, <<>>},
     d \in {<<"m", "c">>, <<"{", "u", "n", "i", "t", "}", " ", "*", "x", "*">>},
     f \in {<<"n", "i", "l">>, FINAL_FOLLOWUP},
     r \in {<<"C", "P", "L">>, <<"3", "S", "G">>}}

\* validate_contact_number and the normalisation of register_user and
\* update_single_field, applied to the argument and then to its own result.
CleanContact ==
    /\ call.fn = "contact"
    /\ Len(call.results) < MaxCalls
    /\ \E c \in {IF call.results = <<>>
                 THEN call.arg
                 ELSE call.results[Len(call.results)].value} :
           call' = [call EXCEPT !.results =
                        Append(@, [valid |-> validate_contact_number(c),
                                   value |-> clean_contact(c)])]
    /\ UNCHANGED <<users_data, saved_users, faults, edits, last>>

ValidateDateTime ==
    /\ call.fn = "date_time"
    /\ Len(call.results) < MaxCalls
    /\ call' = [call EXCEPT !.results = Append(@, validate_date_time(call.arg))]
    /\ UNCHANGED <<users_data, saved_users, faults, edits, last>>

ValidateServicemanDetails ==
    /\ call.fn = "serviceman"
    /\ Len(call.results) < MaxCalls
    /\ call' = [call EXCEPT !.results =
                    Append(@, validate_serviceman_details(call.arg))]
    /\ UNCHANGED <<users_data, saved_users, faults, edits, last>>

Render ==
    /\ call.fn = "render"
    /\ Len(call.results) < MaxCalls
    /\ call' = [call EXCEPT !.results =
                    Append(@, generate_comprehensive_ir_report(
                                  call.arg.ir_data, call.arg.user_particulars))]
    /\ UNCHANGED <<users_data, saved_users, faults, edits, last>>

FunctionsInit ==
    /\ users_data = EmptyDict
    /\ saved_users = EmptyDict
    /\ faults = 0
    /\ edits = 0
    /\ last = [user |-> "none", kind |-> "none", data |-> <<>>, from |-> IDLE,
               out |-> <<>>, report |-> <<>>, failed |-> FALSE]
    /\ \/ \E a \in ContactArgs :
              call = [fn |-> "contact", arg |-> a, results |-> <<>>]
       \/ \E a \in DateTimeArgs :
              call = [fn |-> "date_time", arg |-> a, results |-> <<>>]
       \/ \E a \in ServicemanArgs :
              call = [fn |-> "serviceman", arg |-> a, results |-> <<>>]
       \/ \E a \in RenderArgs :
              call = [fn |-> "render", arg |-> a, results |-> <<>>]

FunctionsNext ==
    \/ CleanContact
    \/ ValidateDateTime
    \/ ValidateServicemanDetails
    \/ Render

Functions == FunctionsInit /\ [][FunctionsNext]_vars


(***************************************************************************)
(* Vocabulary of the properties.                                           *)
(***************************************************************************)

PARTICULARS == {"rank", "full_name", "company", "unit", "contact_number"}

\* The registration states in the order /start walks them, the EDITING
\* state of each field, and the profile key each of them fills.
RegistrationOrder ==
    <<AWAITING_RANK, AWAITING_NAME, AWAITING_COMPANY, AWAITING_UNIT,
      AWAITING_CONTACT>>

EditingOrder ==
    <<EDITING_RANK, EDITING_NAME, EDITING_COMPANY, EDITING_UNIT,
      EDITING_CONTACT>>

FieldOrder == <<"rank", "full_name", "company", "unit", "contact_number">>

RegistrationStates == Range(RegistrationOrder)

EditingStates == Range(EditingOrder)

ReportTextStates ==
    {AWAITING_DATE_TIME, AWAITING_SERVICEMAN, AWAITING_LOCATION,
     AWAITING_INJURY, AWAITING_DESCRIPTION, AWAITING_FOLLOWUP}

ReportStates == {AWAITING_IR_TYPE, AWAITING_NATURE_TYPE} \cup ReportTextStates

TextInputStates == RegistrationStates \cup ReportTextStates \cup EditingStates

\* The record of u in data; a user without a record has the default one
\* (_get_user_profile creates it on first use).
ProfileOf(data, u) == IF u \in DOMAIN data THEN data[u] ELSE DEFAULT_USER_PROFILE

Registered(data, u) == ProfileOf(data, u).registered

\* The validator that handle_message's dispatch applies in a state.
Accepts(state, text) ==
    CASE state \in {AWAITING_RANK, EDITING_RANK} -> validate_rank(text)
      [] state \in {AWAITING_NAME, EDITING_NAME} -> validate_name(text)
      [] state \in {AWAITING_COMPANY, EDITING_COMPANY} -> validate_company(text)
      [] state \in {AWAITING_UNIT, EDITING_UNIT} -> validate_unit(text)
      [] state \in {AWAITING_CONTACT, EDITING_CONTACT} ->
             validate_contact_number(text)
      [] state = AWAITING_DATE_TIME -> validate_date_time(text).valid
      [] state = AWAITING_SERVICEMAN -> validate_serviceman_details(text).valid
      [] state \in {AWAITING_LOCATION, AWAITING_INJURY, AWAITING_DESCRIPTION,
                    AWAITING_FOLLOWUP} -> validate_ir_content(text)
      [] OTHER -> FALSE

\* The value a particulars field gets from an accepted text.
Normalised(field, text) ==
    IF field = "contact_number" THEN clean_contact(text) ELSE Strip(Upper(text))

\* A message of this kind is among the messages out.
DeliveredIn(out, kind) == \E i \in 1..Len(out) : out[i].text = kind

\* The step is an event of u of this kind (a step that changes the state is
\* one event, and last' describes it).
Event(u, kind) == last'.user = u /\ last'.kind = kind

(***************************************************************************)
(* Properties.                                                             *)
(***************************************************************************)

(***************************************************************************)
(* Two users: the events of registration and of the start of a report,     *)
(* sent by two user identifiers in every order.                            *)
(***************************************************************************)

TwoUsers == {"u1", "u2"}

\* No dump and no send fails in these behaviours.
TwoUsersInit ==
    /\ users_data = EmptyDict
    /\ saved_users = EmptyDict
    /\ faults = MaxFaults
    /\ edits = 0
    /\ last = [user |-> "none", kind |-> "none", data |-> <<>>, from |-> IDLE,
               out |-> <<>>, report |-> <<>>, failed |-> FALSE]
    /\ call = [fn |-> "none", arg |-> <<>>, results |-> <<>>]

TwoUsersNext ==
    \E u \in TwoUsers :
        \/ StartCommand(u)
        \/ HandleRankInput(u)
        \/ HandleNameInput(u)
        \/ HandleCompanyInput(u)
        \/ HandleUnitInput(u)
        \/ HandleContactInput(u)
        \/ HandleNewIr(u)
        \/ HandleIrTypeSelection(u)
        \/ HandleBackToMain(u)

TwoUsersSpec == TwoUsersInit /\ [][TwoUsersNext]_vars

\* C1: registered becomes true only in the event where a valid contact
\* number is accepted in AWAITING_CONTACT with rank, name, company and unit
\* staged, and the four staged values and the contact become the
\* particulars; and each registration state after AWAITING_RANK is entered
\* only from the state before it, by a text its validator accepts, which is
\* then staged.  So no prefix of the five fields and no rejected input sets
\* registered.
C1_RegisteredOnlyByFullRegistration ==
    [][\A u \in Users :
        /\ (~Registered(users_data, u) /\ Registered(users_data', u)) =>
              /\ Event(u, "text")
              /\ StateOf(u) = AWAITING_CONTACT
              /\ validate_contact_number(Strip(last'.data))
              /\ \A i \in 1..4 :
                    /\ FieldOrder[i] \in DOMAIN users_data[u].temp_data
                    /\ Truthy(users_data[u].temp_data[FieldOrder[i]])
                    /\ users_data'[u][FieldOrder[i]] =
                           Strip(Upper(users_data[u].temp_data[FieldOrder[i]]))
              /\ users_data'[u].contact_number =
                     clean_contact(Strip(last'.data))
        /\ \A i \in 1..4 :
              (/\ ProfileOf(users_data', u).state = RegistrationOrder[i + 1]
               /\ StateOf(u) # RegistrationOrder[i + 1]) =>
                  /\ Event(u, "text")
                  /\ StateOf(u) = RegistrationOrder[i]
                  /\ Accepts(RegistrationOrder[i], Strip(last'.data))
                  /\ FieldOrder[i] \in DOMAIN users_data'[u].temp_data
                  /\ users_data'[u].temp_data[FieldOrder[i]] =
                         Normalised(FieldOrder[i], Strip(last'.data))
      ]_vars

\* A registration has just been completed by a contact number.
C1_RegistrationCompleted ==
    \E u \in DOMAIN users_data :
        /\ users_data[u].registered
        /\ last.user = u /\ last.kind = "text" /\ last.from = AWAITING_CONTACT
        /\ DeliveredIn(last.out, "registration_success")

\* C2: in every reachable state a registered record has its five
\* particulars (rank, full_name, company, unit, contact_number) non-empty.
C2_RegisteredHasParticulars ==
    \A u \in DOMAIN users_data :
        users_data[u].registered =>
            \A f \in PARTICULARS : Truthy(users_data[u][f])

\* A registered record one of whose fields has just been edited.
C2_RegisteredAndEdited ==
    \E u \in DOMAIN users_data :
        /\ users_data[u].registered
        /\ last.user = u /\ last.kind = "text" /\ last.from \in EditingStates
        /\ DeliveredIn(last.out, "field_updated")

C4_RejectedInputChangesNothing ==
    [][\A u \in Users :
        (/\ Event(u, "text")
         /\ StateOf(u) \in TextInputStates
         /\ ~Accepts(StateOf(u), Strip(last'.data))) =>
            /\ u \in DOMAIN users_data'
            /\ users_data'[u] = users_data[u]
      ]_vars

\* A text has just been rejected in an EDITING state, and one in a
\* registration state with a field already staged.
C4_InputRejected ==
    /\ last.kind = "text"
    /\ ~Accepts(last.from, Strip(last.data))
    /\ Len(last.out) = 1 /\ last.out[1].text = "validation_error"
    /\ \/ last.from \in EditingStates
       \/ /\ last.from = AWAITING_NAME
          /\ users_data[last.user].temp_data # EmptyDict

\* C5: a new-report request of a user who is not registered is rejected
\* (the report menu is not presented; the reply is the registration notice
\* unless something failed) and leaves the record as it was, in whatever
\* state the user is.
C5_UnregisteredNewReportRejected ==
    [][\A u \in Users :
        (Event(u, "new_ir") /\ ~Registered(users_data, u)) =>
            /\ ProfileOf(users_data', u) = ProfileOf(users_data, u)
            /\ ~DeliveredIn(last'.out, "select_ir_type")
            /\ faults' = faults =>
                   Len(last'.out) = 1 /\ last'.out[1].text = "register_first"
      ]_vars

\* An unregistered user in the middle of registration, with fields staged,
\* has just asked for a new report and been refused.
C5_RefusedMidRegistration ==
    \E u \in DOMAIN users_data :
        /\ ~users_data[u].registered
        /\ last.user = u /\ last.kind = "new_ir"
        /\ last.from \in RegistrationStates
        /\ users_data[u].state = last.from
        /\ users_data[u].temp_data # EmptyDict
        /\ Len(last.out) = 1 /\ last.out[1].text = "register_first"

\* C6: a new-report request in a state other than IDLE is rejected (the
\* report menu is not presented) and leaves the record as it was.
C6_NewReportOnlyFromIdle ==
    [][\A u \in Users :
        (Event(u, "new_ir") /\ StateOf(u) # IDLE) =>
            /\ ProfileOf(users_data', u) = ProfileOf(users_data, u)
            /\ ~DeliveredIn(last'.out, "select_ir_type")
      ]_vars

\* C7: in every reachable state a record in a report state
\* (AWAITING_IR_TYPE .. AWAITING_FOLLOWUP) is registered.
C7_ReportStateImpliesRegistered ==
    \A u \in DOMAIN users_data :
        users_data[u].state \in ReportStates => users_data[u].registered

\* C8: after a new-report request that was accepted (made by a registered
\* user and not failed before it was handled: the menu was presented or
\* the record changed), the record is the one before with the state
\* AWAITING_IR_TYPE and the nine draft keys removed from temp_data; the
\* result does not depend on what had been staged, so a request made
\* mid-draft leaves what a first request leaves.
C8_NewReportClearsDraft ==
    [][\A u \in Users :
        (/\ Event(u, "new_ir")
         /\ Registered(users_data, u)
         /\ \/ DeliveredIn(last'.out, "select_ir_type")
            \/ users_data'[u] # users_data[u]) =>
            /\ users_data'[u].state = AWAITING_IR_TYPE
            /\ DOMAIN users_data'[u].temp_data \cap ir_keys = {}
            /\ users_data'[u] =
                   [users_data[u] EXCEPT
                        !.state = AWAITING_IR_TYPE,
                        !.temp_data = DictPopAll(@, ir_keys)]
      ]_vars

\* A new-report request has just been accepted in the middle of a draft
\* (four draft fields were staged).
C8_RequestedMidDraft ==
    \E u \in DOMAIN users_data :
        /\ users_data[u].registered
        /\ last.user = u /\ last.kind = "new_ir"
        /\ last.from = AWAITING_SERVICEMAN
        /\ users_data[u].state = AWAITING_IR_TYPE
        /\ DeliveredIn(last.out, "select_ir_type")

\* C9: on a valid description in AWAITING_DESCRIPTION, if the staged
\* ir_type contains FINAL the report is rendered with the fixed followup
\* sentence and the state becomes IDLE; otherwise the state becomes
\* AWAITING_FOLLOWUP and no report is rendered, and from AWAITING_FOLLOWUP a
\* report is rendered only on a valid followup text.  Stated for the events
\* in which no dump and no send fails.
C9_DescriptionBranchesOnFinal ==
    [][\A u \in Users :
        /\ (/\ Event(u, "text")
            /\ faults' = faults
            /\ StateOf(u) = AWAITING_DESCRIPTION
            /\ validate_ir_content(Strip(last'.data))) =>
               IF /\ "ir_type" \in DOMAIN users_data[u].temp_data
                  /\ Contains(users_data[u].temp_data["ir_type"],
                              <<"F", "I", "N", "A", "L">>)
               THEN /\ last'.report # <<>>
                    /\ last'.report[1].ir_data.followup = FINAL_FOLLOWUP
                    /\ users_data'[u].state = IDLE
               ELSE /\ last'.report = <<>>
                    /\ users_data'[u].state = AWAITING_FOLLOWUP
        /\ (/\ Event(u, "text")
            /\ StateOf(u) = AWAITING_FOLLOWUP
            /\ last'.report # <<>>) =>
               validate_ir_content(Strip(last'.data))
      ]_vars

\* C10: in an EDITING state entered from IDLE (the event before was the
\* edit request, made in IDLE), a valid text sets that state's field to the
\* normalised text, leaves the other four particulars and registered as
\* they were, and sets the state to IDLE.
C10_EditChangesOneField ==
    [][\A u \in Users : \A i \in 1..5 :
        (/\ Event(u, "text")
         /\ StateOf(u) = EditingOrder[i]
         /\ last.user = u /\ last.kind = "edit" /\ last.from = IDLE
         /\ Accepts(EditingOrder[i], Strip(last'.data))) =>
            /\ users_data'[u][FieldOrder[i]] =
                   Normalised(FieldOrder[i], Strip(last'.data))
            /\ \A f \in PARTICULARS \ {FieldOrder[i]} :
                   users_data'[u][f] = users_data[u][f]
            /\ users_data'[u].registered = users_data[u].registered
            /\ users_data'[u].state = IDLE
      ]_vars



\* C11: an edit-field request received in a state other than IDLE
\* (registration, report or another edit state) leaves current_state as it
\* was.
C11_EditingOnlyFromIdle ==
    [][\A u \in Users :
        (Event(u, "edit") /\ StateOf(u) # IDLE) =>
            ProfileOf(users_data', u).state = StateOf(u)
      ]_vars

\* C12: after a text event in AWAITING_CONTACT or in an EDITING state in
\* which the dump of _save_users failed (the one write of the registration
\* or of the edit), the record has the current_state, the registered flag
\* and the five particulars it had before the event.
C12_FailedSaveChangesNothing ==
    [][\A u \in Users :
        (/\ Event(u, "text")
         /\ last'.failed
         /\ StateOf(u) \in {AWAITING_CONTACT} \cup EditingStates) =>
            /\ ProfileOf(users_data', u).state = StateOf(u)
            /\ Registered(users_data', u) = Registered(users_data, u)
            /\ \A f \in PARTICULARS :
                   ProfileOf(users_data', u)[f] = ProfileOf(users_data, u)[f]
      ]_vars

\* C13: a text event in a text-input state either leaves the record as it
\* was or changes current_state (stores the value and advances): it never
\* ends with a changed record in the old state.
C13_TextEventsAreAtomic ==
    [][\A u \in Users :
        (/\ Event(u, "text")
         /\ StateOf(u) \in TextInputStates
         /\ users_data'[u] # users_data[u]) =>
            users_data'[u].state # users_data[u].state
      ]_vars

\* C14: when a text event in AWAITING_DESCRIPTION or AWAITING_FOLLOWUP ends
\* in IDLE (the terminal transition has discarded the draft), a report was
\* rendered and delivered to the user in that event.
C14_DraftClearedOnlyWithReport ==
    [][\A u \in Users :
        (/\ Event(u, "text")
         /\ StateOf(u) \in {AWAITING_DESCRIPTION, AWAITING_FOLLOWUP}
         /\ users_data'[u].state = IDLE) =>
            /\ last'.report # <<>>
            /\ DeliveredIn(last'.out, "report")
      ]_vars

\* C15: whenever a report is rendered, the nine draft fields passed to the
\* renderer are all non-empty.
C15_RenderedDraftIsComplete ==
    last.report # <<>> =>
        \A k \in ir_keys : last.report[1].ir_data[k] # <<>>

C17_ContactNormalisationIdempotent ==
    call.fn = "contact" =>
        /\ Len(call.results) = 2 =>
               /\ call.results[2].value = call.results[1].value
               /\ call.results[1].valid => call.results[2].valid
        /\ (call.results # <<>> /\ call.arg \in {<<"9", "1", "2", "3", "4", "5", "6", "7">>, <<"8", "1", "2", "3", "4", "5", "6", "7">>}) =>
               /\ call.results[1].valid
               /\ call.results[1].value = call.arg
        /\ (/\ call.results # <<>>
            /\ call.arg \in {<<"+", "6", "5", " ", "9", "1", "2", "3", " ", "4", "5", "6", "7">>,
                             <<"9", "1", "2", "3", "4", "5", "6", "7">>,
                             <<"9", "1", "2", "3", "-", "4", "5", "6", "7">>}) =>
               /\ call.results[1].valid
               /\ call.results[1].value = <<"9", "1", "2", "3", "4", "5", "6", "7">>

C17_PrefixedNumberNormalisedTwice ==
    /\ call.fn = "contact"
    /\ call.arg = <<"+", "6", "5", " ", "9", "1", "2", "3", " ", "4", "5", "6", "7">>
    /\ Len(call.results) = 2
    /\ call.results[2].valid
    /\ call.results[2].value = <<"9", "1", "2", "3", "4", "5", "6", "7">>

\* C18: the date/time validator accepts the second token exactly when it
\* is, ignoring case, four digits optionally followed by "HRS" with hour at
\* most 23 and minute at most 59 (a bare "1730" as well as "1730HRS" and
\* "1730hrs"), and returns the four digits without the suffix; the input
\* "160625 2500HRS" is rejected.  Stated for inputs whose first token is the
\* valid date 160625, so that the second token alone decides.
C18_TimeSuffixOptional ==
    \A t \in TimeTokens :
        (/\ call.fn = "date_time"
         /\ call.results # <<>>
         /\ call.arg = <<"1", "6", "0", "6", "2", "5">> \o <<" ">> \o t) =>
            /\ call.results[1].valid <=>
                   /\ Len(t) >= 4
                   /\ \A i \in 1..4 : t[i] \in Digits
                   /\ Upper(SubSeq(t, 5, Len(t))) \in {<<>>, <<"H", "R", "S">>}
                   /\ TwoDigits(SubSeq(t, 1, 2)) <= 23
                   /\ TwoDigits(SubSeq(t, 3, 4)) <= 59
            /\ call.results[1].valid =>
                   call.results[1].time_part = SubSeq(t, 1, 4)
            /\ t = <<"2", "5", "0", "0", "H", "R", "S">> => ~call.results[1].valid

\* C19: the date/time validator accepts an input only if it consists of
\* exactly two whitespace-separated tokens of which the first is six digits
\* with day in 1..31 and month in 1..12; day and month are not checked
\* against each other (310231 is accepted, 320625 and 161325 are rejected);
\* on success the six date digits are returned unchanged.
C19_DateTokenChecked ==
    (call.fn = "date_time" /\ call.results # <<>>) =>
        /\ call.results[1].valid =>
               /\ Len(SplitWhitespace(call.arg)) = 2
               /\ Len(SplitWhitespace(call.arg)[1]) = 6
               /\ \A i \in 1..6 : SplitWhitespace(call.arg)[1][i] \in Digits
               /\ TwoDigits(SubSeq(SplitWhitespace(call.arg)[1], 1, 2)) \in 1..31
               /\ TwoDigits(SubSeq(SplitWhitespace(call.arg)[1], 3, 4)) \in 1..12
               /\ call.results[1].date_part = SplitWhitespace(call.arg)[1]
        /\ call.arg = <<"3", "1", "0", "2", "3", "1", " ", "1", "7", "3", "0", "H", "R", "S">> =>
               /\ call.results[1].valid
               /\ call.results[1].date_part = <<"3", "1", "0", "2", "3", "1">>
        /\ call.arg \in {<<"3", "2", "0", "6", "2", "5", " ", "1", "7", "3", "0", "H", "R", "S">>,
                         <<"1", "6", "1", "3", "2", "5", " ", "1", "7", "3", "0", "H", "R", "S">>} =>
               ~call.results[1].valid

C19_ImpossibleDateAccepted ==
    /\ call.fn = "date_time"
    /\ call.arg = <<"3", "1", "0", "2", "3", "1", " ", "1", "7", "3", "0", "H", "R", "S">>
    /\ call.results # <<>>
    /\ call.results[1].valid
    /\ call.results[1].date_part = <<"3", "1", "0", "2", "3", "1">>

C21_RankIsUnsetOrValid ==
    [][\A u \in Users :
        /\ Cardinality(VALID_RANKS) = 26
        /\ ProfileOf(users_data', u).rank \in {None} \cup VALID_RANKS
        /\ ProfileOf(saved_users', u).rank \in {None} \cup VALID_RANKS
        /\ (Event(u, "text") /\ StateOf(u) \in {AWAITING_RANK, EDITING_RANK}) =>
              /\ DeliveredIn(last'.out, "validation_error") =>
                     Upper(Strip(last'.data)) \notin VALID_RANKS
              /\ Upper(Strip(last'.data)) \notin VALID_RANKS =>
                     /\ users_data'[u] = users_data[u]
                     /\ faults' = faults => DeliveredIn(last'.out, "validation_error")
              /\ (/\ Upper(Strip(last'.data)) \in VALID_RANKS
                  /\ StateOf(u) = AWAITING_RANK) =>
                     users_data'[u].temp_data =
                         DictSet(users_data[u].temp_data, "rank",
                                 Upper(Strip(last'.data)))
              /\ (/\ Upper(Strip(last'.data)) \in VALID_RANKS
                  /\ StateOf(u) = EDITING_RANK) =>
                     users_data'[u].rank = Upper(Strip(last'.data))
        /\ (~Registered(users_data, u) /\ Registered(users_data', u)) =>
              /\ users_data[u].temp_data["rank"] \in VALID_RANKS
              /\ users_data'[u].rank = users_data[u].temp_data["rank"]
      ]_vars

\* A rank typed in lower case with a trailing blank has been stored by a
\* rank edit in its trimmed, upper-cased form.
C21_RankEditedToUpperCase ==
    \E u \in DOMAIN users_data :
        /\ last.user = u /\ last.kind = "text" /\ last.from = EDITING_RANK
        /\ last.data = <<"3", "s", "g", " ">>
        /\ users_data[u].rank = <<"3", "S", "G">>
        /\ saved_users[u].rank = <<"3", "S", "G">>

\* C22: the contact_number of a registered record, in memory and in the
\* file, is always exactly eight digits of which the first is 8 or 9:
\* whatever accepted form was typed at registration or in a contact edit
\* (blanks, hyphens, a plus sign, parentheses, a 65 prefix), the value stored
\* is its normalised form.
C22_ContactIsEightDigits ==
    [][\A u \in Users :
        /\ \A data \in {users_data', saved_users'} :
              Registered(data, u) =>
                  /\ Len(data[u].contact_number) = 8
                  /\ data[u].contact_number[1] \in {"8", "9"}
                  /\ \A i \in 1..8 : data[u].contact_number[i] \in Digits
        /\ (/\ Event(u, "text")
            /\ StateOf(u) \in {AWAITING_CONTACT, EDITING_CONTACT}
            /\ users_data'[u].contact_number # users_data[u].contact_number) =>
              /\ validate_contact_number(last'.data)
              /\ users_data'[u].contact_number = clean_contact(last'.data)
      ]_vars

\* A number typed with a country prefix and blanks has registered a user,
\* and a number typed with a hyphen has then replaced it in a contact edit.
C22_ContactEditedWithHyphen ==
    \E u \in DOMAIN users_data :
        /\ users_data[u].registered
        /\ last.user = u /\ last.kind = "text" /\ last.from = EDITING_CONTACT
        /\ last.data = <<"8", "1", "2", "3", "-", "4", "5", "6", "7">>
        /\ users_data[u].contact_number = <<"8", "1", "2", "3", "4", "5", "6", "7">>

\* C23: the report states are walked in their fixed order: AWAITING_IR_TYPE
\* is entered only by a new-report request, and each of AWAITING_NATURE_TYPE,
\* AWAITING_DATE_TIME, AWAITING_SERVICEMAN, AWAITING_LOCATION,
\* AWAITING_INJURY, AWAITING_DESCRIPTION and AWAITING_FOLLOWUP only from the
\* state before it; a report-type or nature-type selection received in any
\* other state changes neither the state nor the draft.
C23_ReportChainInOrder ==
    [][\A u \in Users :
        /\ (/\ ProfileOf(users_data', u).state = AWAITING_IR_TYPE
            /\ StateOf(u) # AWAITING_IR_TYPE) => Event(u, "new_ir")
        /\ \A i \in 1..7 :
              (/\ ProfileOf(users_data', u).state =
                      <<AWAITING_IR_TYPE, AWAITING_NATURE_TYPE,
                        AWAITING_DATE_TIME, AWAITING_SERVICEMAN,
                        AWAITING_LOCATION, AWAITING_INJURY,
                        AWAITING_DESCRIPTION, AWAITING_FOLLOWUP>>[i + 1]
               /\ StateOf(u) # ProfileOf(users_data', u).state) =>
                  StateOf(u) =
                      <<AWAITING_IR_TYPE, AWAITING_NATURE_TYPE,
                        AWAITING_DATE_TIME, AWAITING_SERVICEMAN,
                        AWAITING_LOCATION, AWAITING_INJURY,
                        AWAITING_DESCRIPTION, AWAITING_FOLLOWUP>>[i]
        /\ (Event(u, "ir_type") /\ StateOf(u) # AWAITING_IR_TYPE) =>
              /\ ProfileOf(users_data', u).state = StateOf(u)
              /\ ProfileOf(users_data', u).temp_data =
                     ProfileOf(users_data, u).temp_data
        /\ (Event(u, "nature") /\ StateOf(u) # AWAITING_NATURE_TYPE) =>
              /\ ProfileOf(users_data', u).state = StateOf(u)
              /\ ProfileOf(users_data', u).temp_data =
                     ProfileOf(users_data, u).temp_data
      ]_vars

\* C24: a menu selection whose identifier is not among the options (an
\* unknown report-type, nature-type or edit-field identifier) leaves the
\* user's state and draft unchanged, and the response presents the same menu
\* again: a message with the report-type menu, the nature-type menu,
\* respectively the details menu with its edit buttons.
C24_UnknownSelectionRepromptsMenu ==
    [][\A u \in Users :
        /\ (Event(u, "ir_type") /\ last'.data \notin DOMAIN ir_type_map) =>
              /\ ProfileOf(users_data', u).state = StateOf(u)
              /\ ProfileOf(users_data', u).temp_data =
                     ProfileOf(users_data, u).temp_data
              /\ faults' = faults =>
                     \E i \in 1..Len(last'.out) : last'.out[i].keyboard = "ir_type"
        /\ (Event(u, "nature") /\ last'.data \notin DOMAIN nature_type_map) =>
              /\ ProfileOf(users_data', u).state = StateOf(u)
              /\ ProfileOf(users_data', u).temp_data =
                     ProfileOf(users_data, u).temp_data
              /\ faults' = faults =>
                     \E i \in 1..Len(last'.out) :
                         last'.out[i].keyboard = "nature_type"
        /\ (/\ Event(u, "edit")
            /\ last'.data \notin
                   {get_details_view_keyboard[i].callback_data : i \in 1..5}) =>
              /\ ProfileOf(users_data', u).state = StateOf(u)
              /\ ProfileOf(users_data', u).temp_data =
                     ProfileOf(users_data, u).temp_data
              /\ faults' = faults =>
                     \E i \in 1..Len(last'.out) :
                         last'.out[i].keyboard = "details_view"
      ]_vars

\* C25: for each of the four report-type labels and each of the two
\* nature-type labels, the identifier the menu generates for the button
\* showing that label is accepted by the selection handler and stores exactly
\* that label in the draft; the ir_type and nature_type of a draft are
\* therefore always among the fixed labels.  (An event in which a call to
\* Telegram raises ends in the handler's except block, possibly before the
\* selection handler has run.)
C25_MenuIdentifiersStoreTheirLabels ==
    [][\A u \in Users :
        /\ Event(u, "ir_type") =>
              /\ Len(get_ir_type_keyboard) = 4
              /\ \A i \in 1..4 :
                    /\ get_ir_type_keyboard[i].label = IR_TYPES[i]
                    /\ get_ir_type_keyboard[i].callback_data
                           \in DOMAIN ir_type_map
                    /\ ir_type_map[get_ir_type_keyboard[i].callback_data] =
                           get_ir_type_keyboard[i].label
                    /\ (/\ last'.data = get_ir_type_keyboard[i].callback_data
                        /\ ~DeliveredIn(last'.out, "system_error")) =>
                           /\ "ir_type" \in DOMAIN users_data'[u].temp_data
                           /\ users_data'[u].temp_data["ir_type"] =
                                  get_ir_type_keyboard[i].label
        /\ Event(u, "nature") =>
              /\ Len(get_nature_type_keyboard) = 2
              /\ \A i \in 1..2 :
                    /\ get_nature_type_keyboard[i].label = NATURE_TYPES[i]
                    /\ get_nature_type_keyboard[i].callback_data
                           \in DOMAIN nature_type_map
                    /\ nature_type_map[get_nature_type_keyboard[i].callback_data] =
                           get_nature_type_keyboard[i].label
                    /\ (/\ last'.data = get_nature_type_keyboard[i].callback_data
                        /\ ~DeliveredIn(last'.out, "system_error")) =>
                           /\ "nature_type" \in DOMAIN users_data'[u].temp_data
                           /\ users_data'[u].temp_data["nature_type"] =
                                  get_nature_type_keyboard[i].label
        /\ \A data \in {users_data', saved_users'} :
              /\ "ir_type" \in DOMAIN ProfileOf(data, u).temp_data =>
                     data[u].temp_data["ir_type"] \in Range(IR_TYPES)
              /\ "nature_type" \in DOMAIN ProfileOf(data, u).temp_data =>
                     data[u].temp_data["nature_type"] \in Range(NATURE_TYPES)
      ]_vars

\* The button labelled "UPDATE & FINAL" has been pressed and its label is
\* the draft's ir_type.
C25_UpdateAndFinalSelected ==
    \E u \in DOMAIN users_data :
        /\ last.user = u /\ last.kind = "ir_type"
        /\ last.data = <<"i", "r", "_", "t", "y", "p", "e", "_", "u", "p", "d", "a", "t", "e", "_", "a", "n", "d", "_", "f", "i", "n", "a", "l">>
        /\ last.from = AWAITING_IR_TYPE
        /\ users_data[u].registered
        /\ users_data[u].temp_data["ir_type"] =
               <<"U", "P", "D", "A", "T", "E", " ", "&", " ", "F", "I", "N", "A", "L">>

C27_SavedBeforePrompt ==
    [][\A u \in Users :
        (/\ Event(u, last'.kind)
         /\ faults' = faults
         /\ ProfileOf(users_data', u).state # StateOf(u)) =>
            \A i \in 1..Len(last'.out) :
                /\ u \in DOMAIN last'.out[i].saved
                /\ last'.out[i].saved[u] = users_data'[u].state
      ]_vars

\* C28: every mutation of a record is followed by a save within the same
\* event, so at the end of every event in which all saves succeed the file
\* equals the in-memory records for every user.
C28_FileEqualsMemoryAfterEvent ==
    [][~last'.failed => saved_users' = users_data']_vars

\* C29: the five particulars of a record change only in an event that is a
\* valid contact input in AWAITING_CONTACT or a valid input in an EDITING
\* state, which changes at most that state's field; every other event (the
\* start command, every button, every report input, every rejected input)
\* leaves all five as they were; and no event removes a record, from memory
\* or from the file.
C29_ParticularsChangeOnlyByRegistrationOrEdit ==
    [][\A u \in Users :
        /\ u \in DOMAIN users_data => u \in DOMAIN users_data'
        /\ u \in DOMAIN saved_users => u \in DOMAIN saved_users'
        /\ (\E f \in PARTICULARS :
                ProfileOf(users_data', u)[f] # ProfileOf(users_data, u)[f]) =>
              /\ Event(u, "text")
              /\ Accepts(StateOf(u), Strip(last'.data))
              /\ \/ StateOf(u) = AWAITING_CONTACT
                 \/ \E i \in 1..5 :
                        /\ StateOf(u) = EditingOrder[i]
                        /\ \A f \in PARTICULARS \ {FieldOrder[i]} :
                               users_data'[u][f] = users_data[u][f]
      ]_vars

\* A registered user's name has just been changed by a name edit, after the
\* registration that set all five particulars.
C29_NameChangedByEdit ==
    \E u \in DOMAIN users_data :
        /\ last.user = u /\ last.kind = "text" /\ last.from = EDITING_NAME
        /\ users_data[u].full_name = <<"L", "I", "M">>
        /\ users_data[u].rank = <<"C", "P", "L">>
        /\ users_data[u].registered

\* C30: immediately after a fresh flow starts the user's temp_data is
\* empty: both when a start command puts an unregistered user into
\* AWAITING_RANK, from whatever state, and when a new-report request puts a
\* registered user into AWAITING_IR_TYPE.
C30_FreshFlowHasEmptyScratch ==
    [][\A u \in Users :
        /\ (/\ Event(u, "start")
            /\ ~Registered(users_data, u)
            /\ users_data'[u].state = AWAITING_RANK) =>
               users_data'[u].temp_data = EmptyDict
        /\ (/\ Event(u, "new_ir")
            /\ Registered(users_data, u)
            /\ users_data'[u].state = AWAITING_IR_TYPE) =>
               users_data'[u].temp_data = EmptyDict
      ]_vars

\* C31: the registered flag is stable: an event of any kind (a start
\* command, a menu selection, a text input, with or without a failing save
\* or send) that finds a record registered leaves it registered, in memory
\* and in the file.
C31_RegisteredIsStable ==
    [][\A u \in Users :
        /\ Registered(users_data, u) => Registered(users_data', u)
        /\ Registered(saved_users, u) => Registered(saved_users', u)
      ]_vars

\* A registered user sent a start command whose save failed, and is still
\* registered.
C31_StillRegisteredAfterFailedStart ==
    \E u \in DOMAIN users_data :
        /\ last.user = u /\ last.kind = "start" /\ last.failed
        /\ DeliveredIn(last.out, "welcome_back")
        /\ users_data[u].registered
        /\ u \in DOMAIN saved_users /\ saved_users[u].registered

\* C32: in every reachable state a registered record is in none of the
\* registration states AWAITING_RANK .. AWAITING_CONTACT, in memory and in
\* the file: a registered user does not re-enter the registration flow.
C32_RegisteredNotInRegistrationState ==
    /\ \A u \in DOMAIN users_data :
           users_data[u].registered =>
               users_data[u].state \notin RegistrationStates
    /\ \A u \in DOMAIN saved_users :
           saved_users[u].registered =>
               saved_users[u].state \notin RegistrationStates

\* A registered user sent a start command in the middle of a draft and is
\* idle, not in AWAITING_RANK.
C32_RegisteredStartedAgain ==
    \E u \in DOMAIN users_data :
        /\ last.user = u /\ last.kind = "start"
        /\ last.from \in ReportTextStates
        /\ users_data[u].registered
        /\ users_data[u].state = IDLE

\* C33: in every reachable state a record in one of the five EDITING
\* states is registered (in memory and in the file), and an edit-field
\* request of an unregistered user leaves current_state as it was.
C33_EditingImpliesRegistered ==
    /\ [](/\ \A u \in DOMAIN users_data :
                users_data[u].state \in EditingStates =>
                    users_data[u].registered
          /\ \A u \in DOMAIN saved_users :
                saved_users[u].state \in EditingStates =>
                    saved_users[u].registered)
    /\ [][\A u \in Users :
            (Event(u, "edit") /\ ~Registered(users_data, u)) =>
                ProfileOf(users_data', u).state = ProfileOf(users_data, u).state
         ]_vars

\* An unregistered user in the middle of registration pressed an edit
\* button: refused, and still in the state the request arrived in.
C33_UnregisteredEditRefused ==
    \E u \in DOMAIN users_data :
        /\ last.user = u /\ last.kind = "edit"
        /\ last.from = AWAITING_NAME
        /\ DeliveredIn(last.out, "details_error")
        /\ ~users_data[u].registered
        /\ users_data[u].state = AWAITING_NAME

\* C34: in every reachable state a record in AWAITING_CONTACT holds a
\* non-empty rank, full_name, company and unit in its temp_data, whatever
\* selections and start commands came between the registration inputs; no
\* event is answered from the contact handler's missing-data branch.
C34_ContactStateHasStagedFields ==
    /\ [](\A u \in DOMAIN users_data :
             users_data[u].state = AWAITING_CONTACT =>
                 \A k \in {"rank", "full_name", "company", "unit"} :
                     Truthy(DictGet(users_data[u].temp_data, k, None)))
    /\ [][~DeliveredIn(last'.out, "registration_restart")]_vars

\* A user reached AWAITING_CONTACT after a report-type button and a second
\* start command came between the registration inputs: the four fields are
\* staged beside the report type.
C34_ContactReachedAfterInterleaving ==
    \E u \in DOMAIN users_data :
        /\ last.user = u /\ last.kind = "text" /\ last.from = AWAITING_UNIT
        /\ users_data[u].state = AWAITING_CONTACT
        /\ "ir_type" \in DOMAIN users_data[u].temp_data
        /\ \A k \in {"rank", "full_name", "company", "unit"} :
               Truthy(DictGet(users_data[u].temp_data, k, None))

C36_BackToMainResetsFlow ==
    [][\A u \in Users :
        Event(u, "back_to_main") =>
            /\ ProfileOf(users_data', u).state = IDLE
            /\ ProfileOf(users_data', u).temp_data = EmptyDict
            /\ \A f \in PARTICULARS \cup {"registered"} :
                   ProfileOf(users_data', u)[f] = ProfileOf(users_data, u)[f]
      ]_vars

\* C37: a start command, in whatever state it is received, leaves the five
\* particulars and the registered flag as they were; for a registered user
\* it leaves state IDLE and an empty temp_data, for an unregistered user
\* state AWAITING_RANK.
C37_StartCommandResetsFlow ==
    [][\A u \in Users :
        Event(u, "start") =>
            /\ \A f \in PARTICULARS \cup {"registered"} :
                   ProfileOf(users_data', u)[f] = ProfileOf(users_data, u)[f]
            /\ IF Registered(users_data, u)
               THEN /\ ProfileOf(users_data', u).state = IDLE
                    /\ ProfileOf(users_data', u).temp_data = EmptyDict
               ELSE ProfileOf(users_data', u).state = AWAITING_RANK
      ]_vars

\* The event l (a value of last) was the input its state expects, it was
\* accepted, and no dump and no send failed: a text that the state's
\* validator accepts in a text state, a button of the menu in a menu state.
\* (IDLE expects nothing: a flow starts there.)
Expected(l) ==
    /\ ~l.failed
    /\ ~DeliveredIn(l.out, "system_error")
    /\ CASE l.from \in TextInputStates ->
                l.kind = "text" /\ Accepts(l.from, Strip(l.data))
         [] l.from = AWAITING_IR_TYPE ->
                l.kind = "ir_type" /\ l.data \in DOMAIN ir_type_map
         [] l.from = AWAITING_NATURE_TYPE ->
                l.kind = "nature" /\ l.data \in DOMAIN nature_type_map
         [] OTHER -> l.kind # "none"

ExpectedInput == Expected(last)

\* The state that follows state in its flow; the description is followed by
\* the followup unless the staged ir_type contains "FINAL".
FlowSuccessor(state, ir_type) ==
    CASE state = AWAITING_RANK -> AWAITING_NAME
      [] state = AWAITING_NAME -> AWAITING_COMPANY
      [] state = AWAITING_COMPANY -> AWAITING_UNIT
      [] state = AWAITING_UNIT -> AWAITING_CONTACT
      [] state = AWAITING_IR_TYPE -> AWAITING_NATURE_TYPE
      [] state = AWAITING_NATURE_TYPE -> AWAITING_DATE_TIME
      [] state = AWAITING_DATE_TIME -> AWAITING_SERVICEMAN
      [] state = AWAITING_SERVICEMAN -> AWAITING_LOCATION
      [] state = AWAITING_LOCATION -> AWAITING_INJURY
      [] state = AWAITING_INJURY -> AWAITING_DESCRIPTION
      [] state = AWAITING_DESCRIPTION ->
             IF Contains(ir_type, <<"F", "I", "N", "A", "L">>)
             THEN IDLE ELSE AWAITING_FOLLOWUP
      [] OTHER -> IDLE

\* C38: when every input is the one the current state expects and no dump
\* and no send fails, every flow returns to IDLE.  Each expected input moves
\* the record one state along its flow, so that a registration is five
\* texts from AWAITING_RANK to registered and IDLE, and a report is two
\* selections and five texts (a FINAL type) or six (another type) from
\* AWAITING_IR_TYPE to IDLE, with the report rendered for a registered
\* user; and no behaviour stays outside IDLE for ever while its inputs are
\* the expected ones, from whatever reachable state.
C38_FlowsReturnToIdle ==
    /\ [][\A u \in Users :
            (last'.user = u /\ Expected(last') /\ StateOf(u) # IDLE) =>
                /\ users_data'[u].state =
                       FlowSuccessor(StateOf(u),
                           DictGet(users_data[u].temp_data, "ir_type", <<>>))
                /\ StateOf(u) = AWAITING_CONTACT => users_data'[u].registered
                /\ (/\ StateOf(u) \in ReportTextStates
                    /\ users_data[u].registered
                    /\ users_data'[u].state = IDLE) => last'.report # <<>>
         ]_vars
    /\ \A u \in Users : []<>(~ExpectedInput \/ StateOf(u) = IDLE)

\* A registered user's followup text was accepted: the report of a
\* non-final type is rendered and the user is idle.
C38_ReportRenderedAfterFollowup ==
    \E u \in DOMAIN users_data :
        /\ last.user = u /\ last.from = AWAITING_FOLLOWUP /\ ExpectedInput
        /\ last.report # <<>>
        /\ users_data[u].registered
        /\ users_data[u].state = IDLE

=============================================================================
